---- MODULE Spec2Model ----
(***************************************************************************)
(* NextBeat: the playback scheduling hook (usePlayback / scheduleNotes),    *)
(* the MIDI export / import codec, the agent's validateAndNormalizeEdits   *)
(* and the instrument cache of useInstruments.                             *)
(*                                                                         *)
(* Positions handed to ToneEvent.start are modelled in fixed point: one    *)
(* unit is 0.00001 (the code's epsilon).  The code rounds logical          *)
(* positions to 4 decimals (10 units), uses a safety margin of 0.001       *)
(* (100 units) and nudges by 0.00001 (1 unit).  Transport.seconds is kept  *)
(* in the same unit (0.00001 s).                                           *)
(***************************************************************************)
EXTENDS Integers, Sequences, FiniteSets, TLC

-----------------------------------------------------------------------------
(* Bounds of the model *)

MaxNotes == 2
MaxPasses == 3
MaxTicks == 40
MaxEdits == 2
MaxSynths == 3
MaxMounted == 2

-----------------------------------------------------------------------------
(* Program constants *)

TICKS_PER_QUARTER_NOTE == 480
safetyMargin == 100
epsilon == 1

-----------------------------------------------------------------------------
(* Generic helpers *)

Max(a, b) == IF a >= b THEN a ELSE b

SetMin(S) == CHOOSE m \in S : \A x \in S : m <= x

Range(s) == {s[i] : i \in 1..Len(s)}

\* Math.round for a non-negative rational n/d: floor(n/d + 1/2)
MathRound(n, d) == (2 * n + d) \div (2 * d)

RECURSIVE Flatten(_)
Flatten(ss) == IF ss = <<>> THEN <<>> ELSE Head(ss) \o Flatten(Tail(ss))

RECURSIVE SortSet(_)
SortSet(S) == IF S = {} THEN <<>>
              ELSE LET m == SetMin(S) IN <<m>> \o SortSet(S \ {m})

RECURSIVE Dedupe(_)
Dedupe(s) == IF s = <<>> THEN <<>>
             ELSE LET r == Dedupe(SelectSeq(Tail(s), LAMBDA x : x # Head(s)))
                  IN <<Head(s)>> \o r

-----------------------------------------------------------------------------
(* Data model: Project, Track, MidiClip, MidiNote, ArrangementClip *)

NoProject == [null |-> TRUE]

Note(p, s, d, v) == [pitch |-> p, startTick |-> s, durationTick |-> d, velocity |-> v]

Track(id, name, mute, instrument, synth) ==
    [id |-> id, name |-> name, mute |-> mute, instrument |-> instrument, synth |-> synth]

MidiClip(id, trackId, notes) == [id |-> id, trackId |-> trackId, notes |-> notes]

ArrClip(trackId, startBar, clipType, clipDataId) ==
    [trackId |-> trackId, startBar |-> startBar, clipType |-> clipType,
     clipDataId |-> clipDataId]

MkProject(bpmField, num, den, tracks, midiClips, arrangementClips) ==
    [tempo |-> bpmField, timeSignature |-> [numerator |-> num, denominator |-> den],
     tracks |-> tracks, midiClips |-> midiClips,
     arrangementClips |-> arrangementClips]

\* Array.prototype.find: index of the first match, 0 when there is none
FindMidiClip(p, id) ==
    LET M == {i \in 1..Len(p.midiClips) : p.midiClips[i].id = id}
    IN IF M = {} THEN 0 ELSE SetMin(M)

FindTrack(p, id) ==
    LET M == {i \in 1..Len(p.tracks) : p.tracks[i].id = id}
    IN IF M = {} THEN 0 ELSE SetMin(M)

\* the instrument cache entry scheduleNotes gets for a track id
getSynthesizer(p, trackId) == p.tracks[FindTrack(p, trackId)].synth

-----------------------------------------------------------------------------
(* scheduleNotes: one scheduling pass, as a function of its inputs *)

ticksPerBar(sig) == (sig.numerator * TICKS_PER_QUARTER_NOTE * 4) \div sig.denominator

\* arrangement clips kept by the first forEach of scheduleNotes
ClipQualifiesIgnoreMute(p, i) ==
    LET a == p.arrangementClips[i] IN
    /\ a.clipType = "midi"
    /\ FindMidiClip(p, a.clipDataId) # 0
    /\ FindTrack(p, a.trackId) # 0
    /\ p.tracks[FindTrack(p, a.trackId)].instrument # "null"

ClipQualifies(p, i) ==
    LET a == p.arrangementClips[i] IN
    /\ a.clipType = "midi"
    /\ FindMidiClip(p, a.clipDataId) # 0
    /\ FindTrack(p, a.trackId) # 0
    /\ LET t == p.tracks[FindTrack(p, a.trackId)]
       IN ~t.mute /\ t.instrument # "null"

QualifyingClips(p) == SortSet({i \in 1..Len(p.arrangementClips) : ClipQualifies(p, i)})

\* tracksWithClips: the Map's insertion order of track ids, and each entry's clips
tracksWithClips(p) ==
    LET q == QualifyingClips(p)
    IN Dedupe([k \in 1..Len(q) |-> p.arrangementClips[q[k]].trackId])

ClipsOfTrack(p, tid) ==
    SelectSeq(QualifyingClips(p), LAMBDA i : p.arrangementClips[i].trackId = tid)

\* allNotes of a track: every note of every clip, annotated with clipStartBars
allNotes(p, tid) ==
    LET cs == ClipsOfTrack(p, tid)
        notesOf(i) ==
            LET a == p.arrangementClips[i]
                mc == p.midiClips[FindMidiClip(p, a.clipDataId)]
            IN [j \in 1..Len(mc.notes) |->
                  [note |-> mc.notes[j], clipStartBars |-> a.startBar,
                   key |-> <<tid, i, j>>]]
    IN Flatten([k \in 1..Len(cs) |-> notesOf(cs[k])])

\* roundedStartBars of an annotated note, in units of 0.00001:
\* Math.round((clipStartBars + startTick / ticksPerBar) / (tempo / 240) * 10000),
\* the quotient ((clipStartBars * tpb + startTick) * 2400000) / (tpb * tempo)
\* reduced by 1920 / denominator to stay within 32-bit integers
roundedStartBars(e, tempo, sig) ==
    LET tpb == ticksPerBar(sig)
    IN 10 * MathRound((e.clipStartBars * tpb + e.note.startTick) * 1250 * sig.denominator,
                      sig.numerator * tempo)

\* notesByStartTime.get(k): the notes of a group, in insertion order
notesAtTime(an, k, tempo, sig) ==
    SelectSeq(an, LAMBDA e : roundedStartBars(e, tempo, sig) = k)

sortedStartTimes(an, tempo, sig) ==
    SortSet({roundedStartBars(an[i], tempo, sig) : i \in 1..Len(an)})

\* currentTransportBars and minStartBars
currentTransportBars(tempo, bpm, seconds) ==
    IF seconds > 0 THEN (seconds * bpm) \div tempo ELSE 0

minStartBars(tempo, bpm, seconds) ==
    Max(0, currentTransportBars(tempo, bpm, seconds) + safetyMargin)

\* adjustedStartBars; hasLast = FALSE stands for lastStartBars = -Infinity
adjustedStartBarsNoFloor(startBars, minStart, hasLast, lastStartBars) ==
    IF hasLast THEN Max(startBars, lastStartBars + epsilon) ELSE startBars

adjustedStartBarsNoEpsilon(startBars, minStart, hasLast, lastStartBars) ==
    Max(startBars, minStart)

adjustedStartBarsForgetsLogical(startBars, minStart, hasLast, lastStartBars) ==
    IF hasLast THEN Max(minStart, lastStartBars + epsilon) ELSE Max(startBars, minStart)

adjustedStartBars(startBars, minStart, hasLast, lastStartBars) ==
    LET m == Max(startBars, minStart)
    IN IF hasLast THEN Max(m, lastStartBars + epsilon) ELSE m

hasDifferentVelocities(g) ==
    Len(g) > 1 /\ \E i \in 1..Len(g) : g[i].note.velocity # g[1].note.velocity

hasDifferentDurations(g) ==
    Len(g) > 1 /\ \E i \in 1..Len(g) : g[i].note.durationTick # g[1].note.durationTick

\* the events one group emits: one chord event, or one event per note
GroupEventsChordFirstOnly(tid, synth, g, logical, start) ==
    IF synth = "PolySynth" /\ Len(g) > 1
    THEN << [track |-> tid, start |-> start, logical |-> logical, chord |-> TRUE,
             keys |-> <<g[1].key>>] >>
    ELSE [i \in 1..Len(g) |->
            [track |-> tid, start |-> start, logical |-> logical, chord |-> FALSE,
             keys |-> <<g[i].key>>]]

GroupEventsIgnoreDuration(tid, synth, g, logical, start) ==
    IF synth = "PolySynth" /\ Len(g) > 1 /\ ~hasDifferentVelocities(g)
    THEN << [track |-> tid, start |-> start, logical |-> logical, chord |-> TRUE,
             keys |-> [i \in 1..Len(g) |-> g[i].key]] >>
    ELSE [i \in 1..Len(g) |->
            [track |-> tid, start |-> start, logical |-> logical, chord |-> FALSE,
             keys |-> <<g[i].key>>]]

GroupEvents(tid, synth, g, logical, start) ==
    IF synth # "Soundfont" /\ synth = "PolySynth" /\ Len(g) > 1
       /\ ~hasDifferentVelocities(g) /\ ~hasDifferentDurations(g)
    THEN << [track |-> tid, start |-> start, logical |-> logical, chord |-> TRUE,
             keys |-> [i \in 1..Len(g) |-> g[i].key]] >>
    ELSE [i \in 1..Len(g) |->
            [track |-> tid, start |-> start, logical |-> logical, chord |-> FALSE,
             keys |-> <<g[i].key>>]]

\* sortedStartTimes.forEach: walk the groups, carrying lastStartBars
RECURSIVE Walk(_, _, _, _, _, _, _, _)
Walk(times, an, tid, synth, tempo, sig, minStart, last) ==
    IF times = <<>> THEN <<>>
    ELSE LET startBars == Head(times)
             adj == adjustedStartBars(startBars, minStart, last.has, last.v)
         IN GroupEvents(tid, synth, notesAtTime(an, startBars, tempo, sig), startBars, adj)
            \o Walk(Tail(times), an, tid, synth, tempo, sig, minStart,
                    [has |-> TRUE, v |-> adj])

\* the body of tracksWithClips.forEach for one track
TrackEvents(p, tid, tempo, bpm, seconds) ==
    LET synth == getSynthesizer(p, tid)
        an == allNotes(p, tid)
    IN IF synth = "none" THEN <<>>
       ELSE Walk(sortedStartTimes(an, tempo, p.timeSignature), an, tid, synth,
                 tempo, p.timeSignature, minStartBars(tempo, bpm, seconds),
                 [has |-> FALSE, v |-> 0])

\* every event a pass registers, in registration order
PassEvents(p, tempo, bpm, seconds) ==
    LET ts == tracksWithClips(p)
    IN Flatten([k \in 1..Len(ts) |-> TrackEvents(p, ts[k], tempo, bpm, seconds)])

-----------------------------------------------------------------------------
(* Inputs *)

Tempos == {60, 120, 240}

HookTempos == {60, 120}

SecondsSet == {0, 200, 60000}

SynthKinds == {"PolySynth", "MonoSynth", "Soundfont", "none"}

NoteSet ==
    { Note(60, 0, 480, 90), Note(64, 0, 480, 90), Note(60, 0, 240, 90),
      Note(67, 0, 480, 110), Note(60, 480, 480, 90) }

NoteSeqs(k) == UNION {[1..n -> NoteSet] : n \in 0..k}

\* one track "t1" with one MIDI clip "c1", placed once or twice on the timeline
OneTrackProject(sig, synth, notes, second) ==
    MkProject(120, sig[1], sig[2],
        << Track("t1", "Piano", FALSE, "piano", synth) >>,
        << MidiClip("c1", "t1", notes) >>,
        << ArrClip("t1", 0, "midi", "c1") >>
           \o (IF second < 0 THEN <<>> ELSE << ArrClip("t1", second, "midi", "c1") >>))

WideProjects ==
    {OneTrackProject(sig, synth, notes, second) :
        sig \in {<<4, 4>>, <<3, 4>>}, synth \in SynthKinds \ {"none"},
        notes \in NoteSeqs(MaxNotes), second \in {-1, 0}}

N1 == Note(60, 0, 480, 90)
N2 == Note(64, 0, 480, 90)
N3 == Note(67, 0, 480, 110)
N4 == Note(60, 480, 240, 90)

\* two tracks; a pattern clip, a clip whose MidiClip is missing, a clip whose
\* track is missing, a muted track and a track without instrument are skipped
\* by the pass
TwoTrackProject(synth1, notes1, mute2, instrument2, notes2) ==
    MkProject(120, 4, 4,
        << Track("t1", "Piano", FALSE, "piano", synth1),
           Track("t2", "Bass", mute2, instrument2, "MonoSynth") >>,
        << MidiClip("c1", "t1", notes1), MidiClip("c2", "t2", notes2) >>,
        << ArrClip("t1", 0, "midi", "c1"), ArrClip("t2", 0, "pattern", "p1"),
           ArrClip("t2", 1, "midi", "c2"), ArrClip("t1", 2, "midi", "gone"),
           ArrClip("t9", 0, "midi", "c1") >>)

ProjectSet ==
    { TwoTrackProject("PolySynth", <<N1, N2>>, FALSE, "bass", <<N1, N4>>),
      TwoTrackProject("PolySynth", <<N1, N3>>, TRUE, "bass", <<N1>>),
      TwoTrackProject("Soundfont", <<N1, N4>>, FALSE, "null", <<N1>>),
      TwoTrackProject("none", <<N1>>, FALSE, "bass", <<N1, N2>>) }

-----------------------------------------------------------------------------
(* State of the usePlayback hook and of the Transport it drives *)

VARIABLES
    project,            \* prop: Project | null
    isPlaying,          \* prop
    tempo,              \* prop
    instrumentsReady,   \* prop
    bpm,                \* Tone.getTransport().bpm.value
    seconds,            \* Tone.getTransport().seconds
    scheduledEvents,    \* scheduledEventsRef.current
    registered,         \* ToneEvents started and not disposed
    scheduleId,         \* the pending requestAnimationFrame of the schedule effect
    passCount,          \* number of scheduling passes run so far
    fireCount,          \* per note: how often its trigger fired in this play session
    lastOp,             \* the last operation
    passInfo,           \* what the last pass saw and registered
    midiFile,           \* codec: the byte buffer handed to import / made by export
    codecPhase,         \* codec: "idle", "exported", "imported" or "reimported"
    calls,              \* codec: the mutator calls import has made, in order
    importResult,       \* codec: who imported last, what it threw or "ok"
    store,              \* codec: the Project the import's mutators act on
    conv,               \* time base: ticks and tempo in, seconds and ticks back out
    edits,              \* agent: the list handed to validateAndNormalizeEdits
    validated,          \* agent: what validateAndNormalizeEdits returned or threw
    synthesizerCache,   \* instruments: track id -> cached instance, 0 for none
    disposed,           \* instruments: the instances dispose() was called on
    loads,              \* instruments: loadInstruments calls suspended at an await
    created,            \* instruments: number of instances created so far
    mounted,            \* instruments: number of mounted components using the hook
    instrOp,            \* instruments: the last hook operation
    playheadUpdateRef,  \* playheadUpdateRef.current: a frame id, 0 for null
    playheadFrames,     \* the playhead's animation frames requested and not yet run
    playheadPosition,   \* the last value handed to setPlayheadPosition
    hookMounted         \* the component using usePlayback is mounted

codecVars == <<midiFile, codecPhase, calls, importResult, store>>

convVars == <<conv>>

agentVars == <<edits, validated>>

instrVars == <<synthesizerCache, disposed, loads, created, mounted, instrOp>>

auxVars == <<convVars, agentVars, instrVars>>

playheadVars == <<playheadUpdateRef, playheadFrames, playheadPosition, hookMounted>>

vars == <<project, isPlaying, tempo, instrumentsReady, bpm, seconds,
          scheduledEvents, registered, scheduleId, passCount, fireCount,
          lastOp, passInfo, midiFile, codecPhase, calls, importResult, store,
          conv, edits, validated, synthesizerCache, disposed, loads, created,
          mounted, instrOp, playheadUpdateRef, playheadFrames, playheadPosition,
          hookMounted>>

\* a buffer of no bytes; the codec at rest
EmptyBuffer ==
    [bytes |-> <<>>, parses |-> FALSE, ppq |-> 480, tempos |-> <<>>,
     timeSignatures |-> <<>>, tracks |-> <<>>]

\* a new Project in the store: no tracks, no clips
EmptyStore(t, num, den) ==
    [tempo |-> t, timeSignature |-> [numerator |-> num, denominator |-> den],
     tracks |-> <<>>, midiClips |-> <<>>, arrangementClips |-> <<>>]

NoImport == [by |-> "none", outcome |-> "none", before |-> EmptyStore(120, 4, 4)]

CodecIdle ==
    /\ midiFile = EmptyBuffer
    /\ codecPhase = "idle"
    /\ calls = <<>>
    /\ importResult = NoImport
    /\ store = EmptyStore(120, 4, 4)

TrackIds == {"a", "b"}

ConvInput(k, t) ==
    [phase |-> "idle", ticks |-> k, tempo |-> t, seconds |-> [n |-> 0, d |-> 1],
     back |-> 0]

ConvIdle == conv = ConvInput(0, 120)

NotValidated == [phase |-> "idle", threw |-> FALSE, result |-> <<>>]

AgentIdle == edits = <<>> /\ validated = NotValidated

InstrIdle ==
    /\ synthesizerCache = [id \in TrackIds |-> 0]
    /\ disposed = {}
    /\ loads = <<>>
    /\ created = 0
    /\ mounted = 0
    /\ instrOp = [op |-> "init", ids |-> {}]

AuxIdle == ConvIdle /\ AgentIdle /\ InstrIdle

\* the hook mounted and not playing: no playhead frame requested
PlayheadIdle ==
    /\ playheadUpdateRef = 0
    /\ playheadFrames = {}
    /\ playheadPosition = 0
    /\ hookMounted = TRUE

NoFrame == [pending |-> FALSE]

NoteKeys(p) ==
    IF p = NoProject THEN {}
    ELSE {<<p.arrangementClips[i].trackId, i, j>> :
            i \in 1..Len(p.arrangementClips), j \in 1..MaxNotes + 1}

ZeroCount(p) == [k \in NoteKeys(p) |-> 0]

\* scheduledEventsRef.current.forEach((event) => event.dispose())
DisposeNone(reg, ref) == reg

DisposeAll(reg, ref) == reg \ Range(ref)

\* the handles of one pass: event k of pass n has identity <<n, k>>
WithIds(evs, n) ==
    [k \in 1..Len(evs) |->
        [id |-> <<n, k>>, track |-> evs[k].track, start |-> evs[k].start,
         logical |-> evs[k].logical, chord |-> evs[k].chord, keys |-> evs[k].keys]]

Init ==
    /\ project \in ProjectSet \cup {NoProject}
    /\ isPlaying = FALSE
    /\ tempo \in HookTempos
    /\ instrumentsReady \in BOOLEAN
    /\ bpm = 120
    /\ seconds = 0
    /\ scheduledEvents = <<>>
    /\ registered = {}
    /\ scheduleId = NoFrame
    /\ passCount = 0
    /\ fireCount = ZeroCount(project)
    /\ lastOp = "init"
    /\ passInfo = [pos |-> 0, n |-> 0, prevN |-> 0, twice |-> FALSE, disposed |-> 0]
    /\ CodecIdle
    /\ AuxIdle
    /\ PlayheadIdle

\* scheduleNotes(), closed over project p and tempo t, reading Transport bpm b
scheduleNotesAppend(p, t, b) ==
    IF p = NoProject
    THEN UNCHANGED <<scheduledEvents, registered, passCount, passInfo>>
    ELSE LET evs == WithIds(PassEvents(p, t, b, seconds), passCount + 1)
         IN /\ scheduledEvents' = scheduledEvents \o evs
            /\ registered' = registered \cup Range(evs)
            /\ passCount' = passCount + 1
            /\ passInfo' = [pos |-> currentTransportBars(t, b, seconds),
                            n |-> Len(evs), prevN |-> passInfo.n,
                            twice |-> lastOp \in {"frame", "direct"},
                            disposed |-> 0]

scheduleNotes(p, t, b) ==
    IF p = NoProject
    THEN UNCHANGED <<scheduledEvents, registered, passCount, passInfo>>
    ELSE LET evs == WithIds(PassEvents(p, t, b, seconds), passCount + 1)
             kept == DisposeAll(registered, scheduledEvents)
         IN /\ scheduledEvents' = evs
            /\ registered' = kept \cup Range(evs)
            /\ passCount' = passCount + 1
            /\ passInfo' = [pos |-> currentTransportBars(t, b, seconds),
                            n |-> Len(evs), prevN |-> passInfo.n,
                            twice |-> lastOp \in {"frame", "direct"},
                            disposed |-> Cardinality(registered \ kept)]

\* the schedule effect: cleanup of the previous run, then the body with the new props
ScheduleEffectKeepWhenStopped(ip, p, t, r) ==
    LET kept == IF ip /\ p # NoProject /\ r
                THEN DisposeAll(registered, scheduledEvents) ELSE registered
    IN /\ registered' = kept
       /\ scheduledEvents' = IF kept = registered THEN scheduledEvents ELSE <<>>
       /\ passInfo' = [passInfo EXCEPT !.disposed = Cardinality(registered \ kept)]
       /\ IF ip /\ p # NoProject /\ r
          THEN /\ bpm' = t
               /\ scheduleId' = [pending |-> TRUE, tempo |-> t, project |-> p]
          ELSE /\ bpm' = bpm
               /\ scheduleId' = NoFrame

ScheduleEffectNoCancel(ip, p, t, r) ==
    LET kept == DisposeAll(registered, scheduledEvents)
    IN /\ registered' = kept
       /\ scheduledEvents' = <<>>
       /\ passInfo' = [passInfo EXCEPT !.disposed = Cardinality(registered \ kept)]
       /\ IF ip /\ p # NoProject /\ r
          THEN /\ bpm' = t
               /\ scheduleId' = [pending |-> TRUE, tempo |-> t, project |-> p]
          ELSE /\ bpm' = bpm
               /\ scheduleId' = scheduleId

ScheduleEffect(ip, p, t, r) ==
    LET kept == DisposeAll(registered, scheduledEvents)
    IN /\ registered' = kept
       /\ scheduledEvents' = <<>>
       /\ passInfo' = [passInfo EXCEPT !.disposed = Cardinality(registered \ kept)]
       /\ IF ip /\ p # NoProject /\ r
          THEN /\ bpm' = t
               /\ scheduleId' = [pending |-> TRUE, tempo |-> t, project |-> p]
          ELSE /\ bpm' = bpm
               /\ scheduleId' = NoFrame

\* requestAnimationFrame hands out an id that no pending frame has
FreshFrame(frames) == SetMin({n \in 1..Cardinality(frames) + 1 : n \notin frames})

\* cancelAnimationFrame(playheadUpdateRef.current) when the ref is not null
CancelNothing(frames, ref) == frames

CancelFrame(frames, ref) == IF ref # 0 THEN frames \ {ref} ELSE frames

\* the playhead effect: cleanup of the previous run, then the body with the
\* new isPlaying
PlayheadEffect(ip) ==
    LET afterCleanup == CancelFrame(playheadFrames, playheadUpdateRef)
    IN IF ~ip
       THEN /\ playheadFrames' = afterCleanup
            /\ playheadUpdateRef' = 0
       ELSE /\ playheadFrames' = afterCleanup \cup {FreshFrame(afterCleanup)}
            /\ playheadUpdateRef' = FreshFrame(afterCleanup)

Play ==
    /\ ~isPlaying
    /\ isPlaying' = TRUE
    /\ ScheduleEffect(TRUE, project, tempo, instrumentsReady)
    /\ fireCount' = ZeroCount(project)
    /\ lastOp' = "play"
    /\ PlayheadEffect(TRUE)
    /\ UNCHANGED <<codecVars, auxVars, playheadPosition, hookMounted>>
    /\ UNCHANGED <<project, tempo, instrumentsReady, seconds, passCount>>

Stop ==
    /\ isPlaying
    /\ isPlaying' = FALSE
    /\ ScheduleEffect(FALSE, project, tempo, instrumentsReady)
    /\ seconds' \in {seconds, 0}
    /\ lastOp' = "stop"
    /\ PlayheadEffect(FALSE)
    /\ UNCHANGED <<codecVars, auxVars, playheadPosition, hookMounted>>
    /\ UNCHANGED <<project, tempo, instrumentsReady, passCount, fireCount>>

SetTempo(t) ==
    /\ t # tempo
    /\ tempo' = t
    /\ ScheduleEffect(isPlaying, project, t, instrumentsReady)
    /\ lastOp' = "tempo"
    /\ PlayheadEffect(isPlaying)
    /\ UNCHANGED <<codecVars, auxVars, playheadPosition, hookMounted>>
    /\ UNCHANGED <<project, isPlaying, instrumentsReady, seconds, passCount, fireCount>>

SetProject(p) ==
    /\ project' = p
    /\ ScheduleEffect(isPlaying, p, tempo, instrumentsReady)
    /\ fireCount' = IF p = project THEN fireCount ELSE ZeroCount(p)
    /\ lastOp' = "project"
    /\ UNCHANGED <<codecVars, auxVars, playheadVars>>
    /\ UNCHANGED <<isPlaying, tempo, instrumentsReady, seconds, passCount>>

SetInstrumentsReady(r) ==
    /\ r # instrumentsReady
    /\ instrumentsReady' = r
    /\ ScheduleEffect(isPlaying, project, tempo, r)
    /\ lastOp' = "ready"
    /\ UNCHANGED <<codecVars, auxVars, playheadVars>>
    /\ UNCHANGED <<project, isPlaying, tempo, seconds, passCount, fireCount>>

\* the requestAnimationFrame callback of the schedule effect
FrameCallbackNoRewrite ==
    /\ scheduleId.pending
    /\ passCount < MaxPasses
    /\ scheduleNotes(scheduleId.project, scheduleId.tempo, bpm)
    /\ scheduleId' = NoFrame
    /\ lastOp' = "frame"
    /\ UNCHANGED <<codecVars, auxVars, playheadVars>>
    /\ UNCHANGED <<project, isPlaying, tempo, instrumentsReady, bpm, seconds, fireCount>>

FrameCallback ==
    /\ scheduleId.pending
    /\ passCount < MaxPasses
    /\ LET b == IF bpm # scheduleId.tempo THEN scheduleId.tempo ELSE bpm
       IN /\ bpm' = b
          /\ scheduleNotes(scheduleId.project, scheduleId.tempo, b)
    /\ scheduleId' = NoFrame
    /\ lastOp' = "frame"
    /\ UNCHANGED <<codecVars, auxVars, playheadVars>>
    /\ UNCHANGED <<project, isPlaying, tempo, instrumentsReady, seconds, fireCount>>

\* a caller invokes the scheduleNotes the hook returns
DirectScheduleNotes ==
    /\ project # NoProject
    /\ passCount < MaxPasses
    /\ scheduleNotes(project, tempo, bpm)
    /\ lastOp' = "direct"
    /\ UNCHANGED <<codecVars, auxVars, playheadVars>>
    /\ UNCHANGED <<project, isPlaying, tempo, instrumentsReady, bpm, seconds,
                   scheduleId, fireCount>>

\* the Transport advances to s; every registered event whose start is crossed fires
TransportAdvance(s) ==
    /\ isPlaying
    /\ s > seconds
    /\ seconds' = s
    /\ LET due == {e \in registered : seconds < e.start /\ e.start <= s}
           hits(k) == Cardinality({e \in due : \E i \in 1..Len(e.keys) : e.keys[i] = k})
       IN fireCount' = [k \in DOMAIN fireCount |-> fireCount[k] + hits(k)]
    /\ lastOp' = "advance"
    /\ UNCHANGED <<codecVars, auxVars, playheadVars>>
    /\ UNCHANGED <<project, isPlaying, tempo, instrumentsReady, bpm,
                   scheduledEvents, registered, scheduleId, passCount, passInfo>>

Next ==
    \/ Play
    \/ Stop
    \/ \E t \in HookTempos : SetTempo(t)
    \/ \E p \in ProjectSet \cup {NoProject} : SetProject(p)
    \/ \E r \in BOOLEAN : SetInstrumentsReady(r)
    \/ FrameCallback
    \/ DirectScheduleNotes
    \/ \E s \in SecondsSet : TransportAdvance(s)

Spec == Init /\ [][Next]_vars

\* the scheduling pass on its own: inputs drawn from bounded sets, then
\* scheduleNotes invoked directly, several times in succession
InitPass ==
    /\ project \in WideProjects
    /\ isPlaying = FALSE
    /\ tempo \in Tempos
    /\ instrumentsReady = TRUE
    /\ bpm \in {tempo, 120}
    /\ seconds \in SecondsSet
    /\ scheduledEvents = <<>>
    /\ registered = {}
    /\ scheduleId = NoFrame
    /\ passCount = 0
    /\ fireCount = ZeroCount(project)
    /\ lastOp = "init"
    /\ passInfo = [pos |-> 0, n |-> 0, prevN |-> 0, twice |-> FALSE, disposed |-> 0]
    /\ CodecIdle
    /\ AuxIdle
    /\ PlayheadIdle

NextPass == DirectScheduleNotes

SpecPass == InitPass /\ [][NextPass]_vars

-----------------------------------------------------------------------------
(* Properties of the scheduler *)

AfterPass == lastOp \in {"frame", "direct"}

\* C1: in one scheduling pass the start positions of the events registered for
\* one track are strictly increasing in registration order, so no two events
\* of a track share a start time.
C1_StrictlyIncreasingPerTrack ==
    \A i, j \in 1..Len(scheduledEvents) :
        (i < j /\ scheduledEvents[i].track = scheduledEvents[j].track)
            => scheduledEvents[i].start < scheduledEvents[j].start

\* C2: within one play session no note's trigger fires more than once.
C2_FiresAtMostOnce ==
    \A k \in DOMAIN fireCount : fireCount[k] <= 1

\* C3: every event a pass registers starts at or after the Transport position
\* the pass read (in the tempo-scaled bar unit).
C3_NoPastScheduling ==
    AfterPass => \A i \in 1..Len(scheduledEvents) :
                    scheduledEvents[i].start >= passInfo.pos

C3_Witness ==
    /\ AfterPass
    /\ passInfo.pos > 0
    /\ \E i \in 1..Len(scheduledEvents) : scheduledEvents[i].logical <= passInfo.pos

\* C4: two scheduleNotes invocations in succession for the same project and
\* tempo leave exactly N registered undisposed handles, N being what one
\* invocation registers.
C4_IdempotentReschedule ==
    (AfterPass /\ passInfo.twice) =>
        /\ passInfo.n = passInfo.prevN
        /\ Cardinality(registered) = passInfo.n

C4_Witness ==
    AfterPass /\ passInfo.twice /\ passInfo.n >= 2 /\ passInfo.disposed = passInfo.n

\* C5: every registered undisposed handle was registered by the most recent
\* scheduling pass and is held in scheduledEventsRef.
C5_SinglePassActive ==
    /\ \A e \in registered : e.id[1] = passCount
    /\ registered \subseteq Range(scheduledEvents)

C5_Witness ==
    passCount >= 2 /\ registered # {} /\ passInfo.disposed > 0

\* C6 as stated: stop, project change and tempo change leave no registered
\* handle, and right after a stop the empty set of handles stays empty unless
\* playback is started again.
C6_EmptyUntilPlay ==
    [][ /\ lastOp' \in {"stop", "tempo", "project"} => registered' = {}
        /\ (lastOp = "stop" /\ ~isPlaying /\ registered = {})
              => (registered' = {} \/ isPlaying') ]_vars

\* C6 amended: stop, project change and tempo change leave no registered
\* handle, and while playback is stopped the empty set of handles stays
\* empty except by a direct scheduleNotes call.
C6_EmptyUntilPass ==
    [][ /\ lastOp' \in {"stop", "tempo", "project"} => registered' = {}
        /\ (~isPlaying /\ registered = {} /\ registered' # {})
              => lastOp' = "direct" ]_vars

C6_Witness ==
    lastOp = "stop" /\ passInfo.disposed > 0 /\ registered = {}

\* C7: right after a pass, every note collected for a scheduled track is
\* carried by exactly one registered event, and the events carry nothing else.
Carried(k) ==
    Cardinality(UNION {{<<i, m>> : m \in {x \in 1..Len(scheduledEvents[i].keys) :
                                              scheduledEvents[i].keys[x] = k}} :
                       i \in 1..Len(scheduledEvents)})

ScheduledTracks(p) ==
    {tid \in Range(tracksWithClips(p)) : getSynthesizer(p, tid) # "none"}

C7_NoNoteDropped ==
    AfterPass =>
        /\ \A tid \in ScheduledTracks(project) :
              \A x \in 1..Len(allNotes(project, tid)) :
                  Carried(allNotes(project, tid)[x].key) = 1
        /\ \A i \in 1..Len(scheduledEvents) :
              /\ scheduledEvents[i].track \in ScheduledTracks(project)
              /\ \A m \in 1..Len(scheduledEvents[i].keys) :
                    \E x \in 1..Len(allNotes(project, scheduledEvents[i].track)) :
                        allNotes(project, scheduledEvents[i].track)[x].key
                            = scheduledEvents[i].keys[m]

C7_Witness ==
    /\ AfterPass
    /\ \E i \in 1..Len(scheduledEvents) :
          scheduledEvents[i].chord /\ Len(scheduledEvents[i].keys) >= 2
    /\ \E i \in 1..Len(scheduledEvents) :
          scheduledEvents[i].start > scheduledEvents[i].logical

-----------------------------------------------------------------------------
(* A play session driven by the hook's props only *)

NextSession ==
    \/ Play
    \/ \E t \in HookTempos : SetTempo(t)
    \/ \E p \in ProjectSet : SetProject(p)
    \/ FrameCallback
    \/ \E s \in SecondsSet : TransportAdvance(s)

SpecSession == Init /\ [][NextSession]_vars

-----------------------------------------------------------------------------
(* MIDI codec: exportProjectToMidi, importMidiFromArrayBuffer, importMidiFile *)

hookVars == <<isPlaying, tempo, instrumentsReady, bpm, seconds, scheduledEvents,
              registered, scheduleId, passCount, fireCount, lastOp, passInfo,
              playheadVars>>

TICKS_PER_BAR == 1920

\* seconds are kept as exact fractions n / d

\* ticksToSeconds: (ticks / 480) * (60 / tempo) = ticks / (8 * tempo)
ticksToSeconds(ticks, t) == [n |-> ticks, d |-> (TICKS_PER_QUARTER_NOTE * t) \div 60]

\* import's inverse: Math.round((seconds * tempo / 60) * TICKS_PER_QUARTER_NOTE),
\* with 480 / 60 reduced to 8 to stay within 32-bit integers
secondsToTicksFixedTempo(sec, t) == MathRound(sec.n * 120 * 8, sec.d)

secondsToTicks(sec, t) == MathRound(sec.n * t * 8, sec.d)

\* @tonejs/midi Header.secondsToTicks / ticksToSeconds at one tempo
HeaderSecondsToTicks(sec, t, ppq) == MathRound(sec.n * t * ppq, sec.d * 60)

HeaderTicksToSeconds(ticks, t, ppq) == [n |-> ticks * 60, d |-> t * ppq]

\* insert(notes, note, "ticks"): keep the track's notes ordered by ticks
RECURSIVE InsertByTicks(_, _)
InsertByTicks(ns, x) ==
    IF ns = <<>> THEN <<x>>
    ELSE IF ns[Len(ns)].ticks <= x.ticks THEN Append(ns, x)
    ELSE Append(InsertByTicks(SubSeq(ns, 1, Len(ns) - 1), x), ns[Len(ns)])

RECURSIVE InsertAll(_, _)
InsertAll(ns, xs) ==
    IF xs = <<>> THEN ns ELSE InsertAll(InsertByTicks(ns, Head(xs)), Tail(xs))

\* midiTrack.addNote({midi, time, duration, velocity})
AddNote(pitch, time, duration, velocity, t) ==
    LET ticks == HeaderSecondsToTicks(time, t, TICKS_PER_QUARTER_NOTE)
        endSec == [n |-> time.n + duration.n, d |-> time.d]
    IN [midi |-> pitch, ticks |-> ticks,
        durationTicks |-> HeaderSecondsToTicks(endSec, t, TICKS_PER_QUARTER_NOTE) - ticks,
        velocity |-> velocity]

\* the notes exportProjectToMidi adds for project track i
ExportedNotes(p, i) ==
    LET tid == p.tracks[i].id
        clips == SelectSeq(p.arrangementClips, LAMBDA c : c.trackId = tid)
        notesOf(c) ==
            IF c.clipType = "midi" /\ FindMidiClip(p, c.clipDataId) # 0
            THEN LET mc == p.midiClips[FindMidiClip(p, c.clipDataId)]
                     clipStartTick == c.startBar * TICKS_PER_BAR
                 IN [j \in 1..Len(mc.notes) |->
                       AddNote(mc.notes[j].pitch,
                               ticksToSeconds(clipStartTick + mc.notes[j].startTick, p.tempo),
                               ticksToSeconds(mc.notes[j].durationTick, p.tempo),
                               mc.notes[j].velocity, p.tempo)]
            ELSE <<>>
    IN InsertAll(<<>>, Flatten([k \in 1..Len(clips) |-> notesOf(clips[k])]))

ExportedTracksMidiOnly(p) ==
    SelectSeq([i \in 1..Len(p.tracks) |-> i],
              LAMBDA i : \E k \in 1..Len(p.arrangementClips) :
                            /\ p.arrangementClips[k].trackId = p.tracks[i].id
                            /\ p.arrangementClips[k].clipType = "midi")

\* project tracks that get a MIDI track: those with at least one arrangement clip
ExportedTracks(p) ==
    SelectSeq([i \in 1..Len(p.tracks) |-> i],
              LAMBDA i : \E k \in 1..Len(p.arrangementClips) :
                            p.arrangementClips[k].trackId = p.tracks[i].id)

\* midi.toArray(): a note-on carries Math.floor(velocity * 127) in one byte
EncodeNote(x) ==
    [midi |-> x.midi % 256, ticks |-> x.ticks, durationTicks |-> x.durationTicks,
     velByte |-> (x.velocity * 127) % 256]

\* exportProjectToMidi: the buffer the Blob holds
exportProjectToMidi(p) ==
    LET ts == ExportedTracks(p)
    IN [bytes |-> <<77, 84, 104, 100, 0>>,
        parses |-> TRUE,
        ppq |-> TICKS_PER_QUARTER_NOTE,
        tempos |-> <<p.tempo>>,
        timeSignatures |-> << <<p.timeSignature.numerator, p.timeSignature.denominator>> >>,
        tracks |-> [k \in 1..Len(ts) |->
                      [name |-> p.tracks[ts[k]].name,
                       channel |-> 0,
                       program |-> 0,
                       notes |-> LET ns == ExportedNotes(p, ts[k])
                                 IN [j \in 1..Len(ns) |-> EncodeNote(ns[j])]]]]

\* new Midi(arrayBuffer): a note-on with velocity byte 0 is a note-off, so it
\* starts no note; the other notes get time, duration and velocity / 127
ParsedNotes(f, k) ==
    LET t == IF f.tempos = <<>> THEN 120 ELSE f.tempos[1]
        on == SelectSeq(f.tracks[k].notes, LAMBDA x : x.velByte # 0)
    IN [j \in 1..Len(on) |->
          [midi |-> on[j].midi,
           time |-> HeaderTicksToSeconds(on[j].ticks, t, f.ppq),
           duration |-> HeaderTicksToSeconds(on[j].durationTicks, t, f.ppq),
           velocity |-> [n |-> on[j].velByte, d |-> 127]]]

isMidiArrayBufferLengthOnly(bytes) == Len(bytes) >= 4

isMidiArrayBuffer(bytes) ==
    /\ Len(bytes) >= 4
    /\ bytes[1] = 77 /\ bytes[2] = 84 /\ bytes[3] = 104 /\ bytes[4] = 100

Call(op, arg) == [op |-> op, arg |-> arg]

CeilDiv(a, b) == (a + b - 1) \div b

\* the header part of import: setTempo and setTimeSignature
HeaderCalls(f) ==
    (IF Len(f.tempos) > 0 THEN << Call("setTempo", f.tempos[1]) >> ELSE <<>>)
    \o (IF Len(f.timeSignatures) > 0
        THEN << Call("setTimeSignature",
                     [numerator |-> f.timeSignatures[1][1],
                      denominator |-> f.timeSignatures[1][2]]) >>
        ELSE <<>>)

\* a track name as its sequence of characters
NameChars(name) ==
    CASE name = "" -> <<>>
      [] name = "Lead" -> <<"L", "e", "a", "d">>
      [] name = "Bass" -> <<"B", "a", "s", "s">>
      [] name = "Bass Drum" -> <<"B", "a", "s", "s", " ", "D", "r", "u", "m">>
      [] name = "Piano" -> <<"P", "i", "a", "n", "o">>
      [] name = "PERC" -> <<"P", "E", "R", "C">>
      [] name = "Pad" -> <<"P", "a", "d">>

UpperCase == <<"A", "B", "C", "D", "E", "L", "P", "R">>

LowerCase == <<"a", "b", "c", "d", "e", "l", "p", "r">>

\* String.prototype.toLowerCase
toLowerCase(chars) ==
    [i \in 1..Len(chars) |->
        IF \E u \in 1..Len(UpperCase) : UpperCase[u] = chars[i]
        THEN LowerCase[CHOOSE u \in 1..Len(UpperCase) : UpperCase[u] = chars[i]]
        ELSE chars[i]]

\* String.prototype.includes
includes(chars, sub) ==
    \E i \in 0..(Len(chars) - Len(sub)) : SubSeq(chars, i + 1, i + Len(sub)) = sub

InstrumentId ==
    {"piano", "synth", "bass", "guitar", "strings", "brass", "flute", "drums",
     "percussion", "gunshot", "automation"}

programToInstrumentId(program) ==
    IF program = 9 THEN "drums"
    ELSE IF program >= 112 /\ program <= 119 THEN "percussion"
    ELSE IF program >= 0 /\ program <= 15 THEN "piano"
    ELSE IF program >= 16 /\ program <= 23 THEN "synth"
    ELSE IF program >= 24 /\ program <= 31 THEN "guitar"
    ELSE IF program >= 32 /\ program <= 39 THEN "bass"
    ELSE IF program >= 40 /\ program <= 47 THEN "strings"
    ELSE IF program >= 48 /\ program <= 55 THEN "strings"
    ELSE IF program >= 56 /\ program <= 63 THEN "brass"
    ELSE IF program >= 64 /\ program <= 71 THEN "brass"
    ELSE IF program >= 72 /\ program <= 79 THEN "strings"
    ELSE IF program >= 80 /\ program <= 95 THEN "synth"
    ELSE IF program >= 96 /\ program <= 103 THEN "synth"
    ELSE IF program >= 104 /\ program <= 111 THEN "guitar"
    ELSE "piano"

\* the sum of the pitches of a note list
RECURSIVE PitchSum(_)
PitchSum(notes) == IF notes = <<>> THEN 0 ELSE Head(notes).pitch + PitchSum(Tail(notes))

\* what suggestInstrument returns when no name keyword matches;
\* midiProgram -1 stands for null
ByProgramOrPitch(notes, midiProgram) ==
    IF midiProgram >= 0 /\ midiProgram <= 127 THEN programToInstrumentId(midiProgram)
    ELSE IF Len(notes) > 0 /\ PitchSum(notes) < 45 * Len(notes) THEN "bass"
    ELSE IF Len(notes) > 0 /\ PitchSum(notes) > 72 * Len(notes) THEN "strings"
    ELSE "piano"

suggestInstrumentBassFirst(trackName, channelIndex, notes, midiProgram) ==
    LET lowerName == toLowerCase(NameChars(trackName))
    IN IF includes(lowerName, <<"b", "a", "s", "s">>) THEN "bass"
       ELSE IF includes(lowerName, <<"p", "i", "a", "n", "o">>) THEN "piano"
       ELSE IF \/ channelIndex = 9
               \/ includes(lowerName, <<"d", "r", "u", "m">>)
               \/ includes(lowerName, <<"p", "e", "r", "c">>) THEN "drums"
       ELSE ByProgramOrPitch(notes, midiProgram)

suggestInstrument(trackName, channelIndex, notes, midiProgram) ==
    LET lowerName == toLowerCase(NameChars(trackName))
    IN IF \/ channelIndex = 9
          \/ includes(lowerName, <<"d", "r", "u", "m">>)
          \/ includes(lowerName, <<"k", "i", "c", "k">>)
          \/ includes(lowerName, <<"p", "e", "r", "c">>) THEN "drums"
       ELSE IF includes(lowerName, <<"b", "a", "s", "s">>) THEN "bass"
       ELSE IF includes(lowerName, <<"s", "y", "n", "t", "h">>) THEN "synth"
       ELSE IF includes(lowerName, <<"p", "i", "a", "n", "o">>) THEN "piano"
       ELSE IF includes(lowerName, <<"g", "u", "i", "t", "a", "r">>) THEN "guitar"
       ELSE IF includes(lowerName, <<"s", "t", "r", "i", "n", "g">>) THEN "strings"
       ELSE IF includes(lowerName, <<"b", "r", "a", "s", "s">>) THEN "brass"
       ELSE IF \/ includes(lowerName, <<"h", "a", "t">>)
               \/ includes(lowerName, <<"c", "y", "m", "b", "a", "l">>) THEN "percussion"
       ELSE ByProgramOrPitch(notes, midiProgram)

\* Math.max(1, Math.ceil(clipLengthTicks / TICKS_PER_BAR))
clipLengthBarsFloor(clipLengthTicks, tpb) == Max(1, clipLengthTicks \div tpb)

clipLengthBars(clipLengthTicks, tpb) == Max(1, CeilDiv(clipLengthTicks, tpb))

\* the additions midi.tracks.forEach makes for source track k (trackIndex k - 1)
TrackAdditions(f, k) ==
    LET src == ParsedNotes(f, k)
        num == IF f.timeSignatures = <<>> THEN 4 ELSE f.timeSignatures[1][1]
        den == IF f.timeSignatures = <<>> THEN 4 ELSE f.timeSignatures[1][2]
        tpb == (num * TICKS_PER_QUARTER_NOTE * 4) \div den
        t == IF f.tempos = <<>> THEN 120 ELSE f.tempos[1]
        notes == [j \in 1..Len(src) |->
                    [pitch |-> src[j].midi,
                     startTick |-> secondsToTicks(src[j].time, t),
                     durationTick |-> secondsToTicks(src[j].duration, t),
                     velocity |-> [n |-> src[j].velocity.n * 100, d |-> src[j].velocity.d],
                     channel |-> 0]]
        earliestTick == SetMin({notes[j].startTick : j \in 1..Len(notes)})
        latestTick == -SetMin({-(notes[j].startTick + notes[j].durationTick) :
                                 j \in 1..Len(notes)})
        normalizedNotes == [j \in 1..Len(notes) |->
                              [notes[j] EXCEPT !.startTick = @ - earliestTick]]
        lengthBars == clipLengthBars(latestTick - earliestTick, tpb)
        midiProgramFromFile == f.tracks[k].program
        program == IF midiProgramFromFile >= 0 /\ midiProgramFromFile <= 127
                   THEN midiProgramFromFile ELSE -1
        instrument == suggestInstrument(f.tracks[k].name, f.tracks[k].channel,
                                        notes, program)
        trackType == IF instrument = "drums" \/ instrument = "percussion"
                     THEN "drums" ELSE "instrument"
        trackId == <<"track", k - 1>>
        midiClipId == <<"midi", k - 1>>
    IN IF Len(src) = 0 THEN <<>>
       ELSE << Call("addTrack",
                    [id |-> trackId,
                     name |-> IF f.tracks[k].name # "" THEN f.tracks[k].name
                              ELSE <<"Track", k>>,
                     type |-> trackType,
                     instrument |-> <<instrument>>,
                     mute |-> FALSE]),
               Call("addMidiClip",
                    [id |-> midiClipId, trackId |-> trackId, startBar |-> 0,
                     lengthBars |-> lengthBars, notes |-> normalizedNotes]),
               Call("addArrangementClip",
                    [id |-> <<"arr", k - 1>>, trackId |-> trackId, startBar |-> 0,
                     lengthBars |-> lengthBars, clipType |-> "midi",
                     clipDataId |-> midiClipId]) >>

TrackCallsClipFirst(f, k) ==
    LET a == TrackAdditions(f, k)
    IN IF a = <<>> THEN <<>> ELSE <<a[3], a[1], a[2]>>

\* the mutator calls for source track k, in the order the loop body makes them
TrackCalls(f, k) == TrackAdditions(f, k)

AllTrackCalls(f) == Flatten([k \in 1..Len(f.tracks) |-> TrackCalls(f, k)])

HasNotes(f) == \E k \in 1..Len(f.tracks) : Len(ParsedNotes(f, k)) > 0

\* importMidiFromArrayBuffer: what it throws, or "ok", and the mutator calls made
importMidiFromArrayBuffer(f) ==
    IF ~isMidiArrayBuffer(f.bytes)
    THEN [outcome |-> "Invalid MIDI data", calls |-> <<>>]
    ELSE IF ~f.parses
    THEN [outcome |-> "Failed to parse MIDI file", calls |-> <<>>]
    ELSE IF ~HasNotes(f)
    THEN [outcome |-> "MIDI file has no tracks with notes", calls |-> <<>>]
    ELSE [outcome |-> "ok", calls |-> HeaderCalls(f) \o AllTrackCalls(f)]

\* importMidiFile with the parser inlined: new Midi(arrayBuffer) throws on a
\* buffer that does not parse; nothing else rejects
\* the older import names the SoundFont program instead: it looks for a
\* program change among the control changes, finds none and takes program 0
MidiProgramTrack(c) ==
    IF c.op = "addTrack"
    THEN Call("addTrack", [c.arg EXCEPT !.type = "instrument", !.instrument = <<"midi", 0>>])
    ELSE c

importMidiFile(f) ==
    IF ~f.parses
    THEN [outcome |-> "rejected by new Midi", calls |-> <<>>]
    ELSE [outcome |-> "ok",
          calls |-> HeaderCalls(f)
                      \o [i \in 1..Len(AllTrackCalls(f)) |-> MidiProgramTrack(AllTrackCalls(f)[i])]]

-----------------------------------------------------------------------------
(* Codec inputs *)

CodecTempos == {120, 100}

\* byte buffers: every prefix of "MThd" 0, with any byte possibly replaced by 0xFF
BytePrefixes ==
    UNION {{[i \in 1..n |-> IF i \in bad THEN 255 ELSE <<77, 84, 104, 100, 0>>[i]] :
              bad \in SUBSET (1..n)} : n \in 0..5}

FileNote(pitch, ticks, dur, vb) ==
    [midi |-> pitch, ticks |-> ticks, durationTicks |-> dur, velByte |-> vb]

FileTrack(name, channel, program, notes) ==
    [name |-> name, channel |-> channel, program |-> program, notes |-> notes]

FileTrackLists ==
    { <<>>,
      << FileTrack("", 0, 0, <<>>) >>,
      << FileTrack("Lead", 0, 0, << FileNote(60, 96, 48, 100) >>) >>,
      << FileTrack("", 0, 0, <<>>),
         FileTrack("", 0, 0, << FileNote(72, 480, 960, 127), FileNote(40, 0, 240, 1) >>) >>,
      << FileTrack("Bass Drum", 0, 33, << FileNote(36, 960, 1920, 100) >>),
         FileTrack("Piano", 9, 0, << FileNote(60, 0, 480, 100) >>) >>,
      << FileTrack("PERC", 0, 40, << FileNote(76, 0, 480, 100) >>),
         FileTrack("Pad", 0, 89, << FileNote(30, 0, 480, 100) >>) >> }

\* buffers a user may hand to import; only a buffer that starts with the magic
\* bytes and has a body can parse
InputFiles ==
    {[bytes |-> b, parses |-> FALSE, ppq |-> 480, tempos |-> <<>>,
      timeSignatures |-> <<>>, tracks |-> <<>>] : b \in BytePrefixes}
    \cup
    {[bytes |-> <<77, 84, 104, 100, 0>>, parses |-> TRUE, ppq |-> q, tempos |-> tp,
      timeSignatures |-> sg, tracks |-> tr] :
        q \in {480, 96}, tp \in {<<>>, <<100>>}, sg \in {<<>>, << <<3, 4>> >>},
        tr \in FileTrackLists}

CodecNotes == {Note(p, s, 480, v) : p \in {60, 64}, s \in {0, 480}, v \in {0, 100}}

CodecNoteSeqs(k) == UNION {[1..n -> CodecNotes] : n \in 0..k}

\* track t1 with one MIDI clip placed at startBar; track t2 with no clip, a
\* pattern clip only, or a second placement of the same MIDI clip
CodecProject(t, notes, startBar, second) ==
    MkProject(t, 4, 4,
        << Track("t1", "Lead", FALSE, "piano", "PolySynth"),
           Track("t2", "Bass", FALSE, "bass", "MonoSynth") >>,
        << MidiClip("c1", "t1", notes) >>,
        << ArrClip("t1", startBar, "midi", "c1") >>
           \o (IF second = "pattern" THEN << ArrClip("t2", 0, "pattern", "p1") >>
               ELSE IF second = "midi" THEN << ArrClip("t2", 0, "midi", "c1") >>
               ELSE <<>>))

CodecProjects ==
    {CodecProject(t, notes, sb, second) :
        t \in CodecTempos, notes \in CodecNoteSeqs(MaxNotes), sb \in {0, 1},
        second \in {"none", "pattern", "midi"}}

-----------------------------------------------------------------------------
(* The project store the import's mutators act on *)

\* one mutator call applied to the Project in the store
ApplyCall(st, c) ==
    IF c.op = "setTempo" THEN [st EXCEPT !.tempo = c.arg]
    ELSE IF c.op = "setTimeSignature" THEN [st EXCEPT !.timeSignature = c.arg]
    ELSE IF c.op = "addTrack" THEN [st EXCEPT !.tracks = Append(@, c.arg)]
    ELSE IF c.op = "addMidiClip" THEN [st EXCEPT !.midiClips = Append(@, c.arg)]
    ELSE [st EXCEPT !.arrangementClips = Append(@, c.arg)]

RECURSIVE ApplyCalls(_, _)
ApplyCalls(st, cs) ==
    IF cs = <<>> THEN st ELSE ApplyCalls(ApplyCall(st, Head(cs)), Tail(cs))

\* the store holding project p; ids are kept as 1-tuples
StoreOf(p) ==
    [tempo |-> p.tempo, timeSignature |-> p.timeSignature,
     tracks |-> [i \in 1..Len(p.tracks) |-> [id |-> <<p.tracks[i].id>>]],
     midiClips |-> [i \in 1..Len(p.midiClips) |-> [id |-> <<p.midiClips[i].id>>]],
     arrangementClips |->
        [i \in 1..Len(p.arrangementClips) |->
            [trackId |-> <<p.arrangementClips[i].trackId>>,
             clipType |-> p.arrangementClips[i].clipType,
             clipDataId |-> <<p.arrangementClips[i].clipDataId>>]]]

\* a new Project, at the default tempo and signature or after the user set others
NewStores == {EmptyStore(t, sg[1], sg[2]) : t \in {120, 90}, sg \in {<<4, 4>>, <<6, 8>>}}

-----------------------------------------------------------------------------
(* Codec operations *)

HookIdle ==
    /\ isPlaying = FALSE
    /\ tempo = 120
    /\ instrumentsReady = TRUE
    /\ bpm = 120
    /\ seconds = 0
    /\ scheduledEvents = <<>>
    /\ registered = {}
    /\ scheduleId = NoFrame
    /\ passCount = 0
    /\ fireCount = ZeroCount(NoProject)
    /\ lastOp = "init"
    /\ passInfo = [pos |-> 0, n |-> 0, prevN |-> 0, twice |-> FALSE, disposed |-> 0]
    /\ PlayheadIdle

InitCodec ==
    /\ HookIdle
    /\ codecPhase = "idle"
    /\ calls = <<>>
    /\ importResult = NoImport
    /\ AuxIdle
    /\ \/ /\ project \in CodecProjects
          /\ midiFile = EmptyBuffer
          /\ store = StoreOf(project)
       \/ /\ project = NoProject
          /\ midiFile \in InputFiles
          /\ store \in NewStores

ExportProject ==
    /\ codecPhase = "idle"
    /\ project # NoProject
    /\ midiFile' = exportProjectToMidi(project)
    /\ codecPhase' = "exported"
    /\ UNCHANGED <<project, calls, importResult, store>>
    /\ UNCHANGED <<hookVars, auxVars>>

ImportMidiFromArrayBuffer ==
    /\ codecPhase \in {"idle", "exported"}
    /\ LET r == importMidiFromArrayBuffer(midiFile)
       IN /\ calls' = r.calls
          /\ store' = ApplyCalls(store, r.calls)
          /\ importResult' = [by |-> "importMidiFromArrayBuffer", outcome |-> r.outcome,
                              before |-> store]
    /\ codecPhase' = IF codecPhase = "exported" THEN "reimported" ELSE "imported"
    /\ UNCHANGED <<project, midiFile>>
    /\ UNCHANGED <<hookVars, auxVars>>

ImportMidiFile ==
    /\ codecPhase \in {"idle", "exported"}
    /\ LET r == importMidiFile(midiFile)
       IN /\ calls' = r.calls
          /\ store' = ApplyCalls(store, r.calls)
          /\ importResult' = [by |-> "importMidiFile", outcome |-> r.outcome,
                              before |-> store]
    /\ codecPhase' = IF codecPhase = "exported" THEN "reimported" ELSE "imported"
    /\ UNCHANGED <<project, midiFile>>
    /\ UNCHANGED <<hookVars, auxVars>>

NextCodec == ExportProject \/ ImportMidiFromArrayBuffer \/ ImportMidiFile

SpecCodec == InitCodec /\ [][NextCodec]_vars

-----------------------------------------------------------------------------
(* Properties of the codec *)

Imported == importResult.by # "none"

\* C8: importMidiFromArrayBuffer throws its format error on every buffer that
\* is shorter than 4 bytes or does not start with 4D 54 68 64, and has then
\* called no mutator.
C8_FormatRejection ==
    (importResult.by = "importMidiFromArrayBuffer"
        /\ (Len(midiFile.bytes) < 4 \/ SubSeq(midiFile.bytes, 1, 4) # <<77, 84, 104, 100>>))
    => (importResult.outcome = "Invalid MIDI data" /\ calls = <<>>)

C8_Witness ==
    /\ importResult.by = "importMidiFromArrayBuffer"
    /\ Len(midiFile.bytes) >= 4
    /\ SubSeq(midiFile.bytes, 1, 4) # <<77, 84, 104, 100>>
    /\ importResult.outcome = "Invalid MIDI data"

\* C9: when the file parses but no track holds a note, import is rejected
\* with an error and has called no mutator.
C9_EmptyRejectedUnmutated ==
    (Imported /\ midiFile.parses /\ ~HasNotes(midiFile))
    => (importResult.outcome # "ok" /\ calls = <<>>)

\* C10: import(export(project)) yields as many notes as the project places on
\* its exported tracks, and per exported track the same multiset of pitches.
PlacedNotes(p, i) ==
    Flatten([k \in 1..Len(p.arrangementClips) |->
        LET c == p.arrangementClips[k]
        IN IF c.trackId = p.tracks[i].id /\ c.clipType = "midi"
              /\ FindMidiClip(p, c.clipDataId) # 0
           THEN p.midiClips[FindMidiClip(p, c.clipDataId)].notes
           ELSE <<>>])

\* the notes import stored for source track index k - 1
ImportedNotes(k) ==
    LET M == {i \in 1..Len(calls) :
                calls[i].op = "addMidiClip" /\ calls[i].arg.id = <<"midi", k - 1>>}
    IN IF M = {} THEN <<>> ELSE calls[SetMin(M)].arg.notes

CountPitch(ns, x) == Cardinality({j \in 1..Len(ns) : ns[j].pitch = x})

RECURSIVE SumLen(_)
SumLen(ss) == IF ss = <<>> THEN 0 ELSE Len(Head(ss)) + SumLen(Tail(ss))

C10_RoundTripPreservesNotes ==
    codecPhase = "reimported" =>
        LET ts == ExportedTracks(project)
        IN /\ SumLen([k \in 1..Len(ts) |-> ImportedNotes(k)])
                = SumLen([k \in 1..Len(ts) |-> PlacedNotes(project, ts[k])])
           /\ \A k \in 1..Len(ts) : \A x \in 0..127 :
                 CountPitch(ImportedNotes(k), x) = CountPitch(PlacedNotes(project, ts[k]), x)

\* a stored value n / d lies within 1 of the integer v
WithinOne(frac, v) == (v - 1) * frac.d <= frac.n /\ frac.n <= (v + 1) * frac.d

\* C11: after import(export(project)) every placed note with velocity v is
\* stored, on the track it was exported to, with a velocity within 1 of v
\* (stated for v >= 1; a note of velocity 0 is not stored at all).
C11_RoundTripPreservesVelocity ==
    codecPhase = "reimported" =>
        LET ts == ExportedTracks(project)
        IN \A k \in 1..Len(ts) :
              LET placed == PlacedNotes(project, ts[k])
                  stored == ImportedNotes(k)
              IN \A j \in 1..Len(placed) :
                    placed[j].velocity >= 1 => \E i \in 1..Len(stored) :
                    /\ stored[i].pitch = placed[j].pitch
                    /\ WithinOne(stored[i].velocity, placed[j].velocity)

\* the notes project track i places, each with the absolute tick
\* arrangementClip.startBar * ticksPerBar + startTick
PlacedAbs(p, i) ==
    Flatten([k \in 1..Len(p.arrangementClips) |->
        LET c == p.arrangementClips[k]
        IN IF c.trackId = p.tracks[i].id /\ c.clipType = "midi"
              /\ FindMidiClip(p, c.clipDataId) # 0
           THEN LET ns == p.midiClips[FindMidiClip(p, c.clipDataId)].notes
                IN [j \in 1..Len(ns) |->
                      [pitch |-> ns[j].pitch,
                       abs |-> c.startBar * ticksPerBar(p.timeSignature) + ns[j].startTick,
                       durationTick |-> ns[j].durationTick,
                       velocity |-> ns[j].velocity]]
           ELSE <<>>])

Near(a, b) == a - b <= 1 /\ b - a <= 1

\* C12: after import(export(project)) every placed note is stored with a
\* startTick within 1 of its absolute tick measured from the earliest note
\* exported on its track, and with a durationTick within 1 of the original
\* (stated for the notes that are stored, those of velocity >= 1).
C12_RoundTripPreservesTime ==
    codecPhase = "reimported" =>
        LET ts == ExportedTracks(project)
        IN \A k \in 1..Len(ts) :
              LET placed == PlacedAbs(project, ts[k])
                  stored == ImportedNotes(k)
                  first == SetMin({placed[j].abs : j \in 1..Len(placed)})
              IN \A j \in 1..Len(placed) :
                    placed[j].velocity >= 1 => \E i \in 1..Len(stored) :
                    /\ stored[i].pitch = placed[j].pitch
                    /\ Near(stored[i].startTick, placed[j].abs - first)
                    /\ Near(stored[i].durationTick, placed[j].durationTick)

-----------------------------------------------------------------------------
(* Export and the scheduler on the same note *)

\* the note behind key <<trackId, arrangement clip index, note index>>
NoteOfKey(p, k) ==
    p.midiClips[FindMidiClip(p, p.arrangementClips[k[2]].clipDataId)].notes[k[3]]

\* the time exportProjectToMidi gives the note behind key k, at tempo t
ExportTime(p, k, t) ==
    ticksToSeconds(p.arrangementClips[k[2]].startBar * TICKS_PER_BAR
                       + NoteOfKey(p, k).startTick, t)

\* C14: the time export gives a note equals the logical position the
\* scheduler registers it at, up to the scheduler's rounding to 4 decimals
\* (half a step of 0.0001, 5 units of 0.00001), at the same tempo.
C14_ExportMatchesScheduler ==
    AfterPass =>
        \A i \in 1..Len(scheduledEvents) : \A m \in 1..Len(scheduledEvents[i].keys) :
            LET sec == ExportTime(project, scheduledEvents[i].keys[m], tempo)
                pos == scheduledEvents[i].logical
            IN /\ sec.n * 100000 - pos * sec.d <= 5 * sec.d
               /\ pos * sec.d - sec.n * 100000 <= 5 * sec.d

-----------------------------------------------------------------------------
(* The time base on its own: ticks -> seconds -> ticks *)

ConvTicks == 0..MaxTicks \cup {479, 480, 481, 1919, 1920, 1921, 100000}

ConvTempos == {1, 30, 60, 100, 120, 137, 240, 300}

InitConv ==
    /\ HookIdle
    /\ project = NoProject
    /\ CodecIdle
    /\ AgentIdle
    /\ InstrIdle
    /\ conv \in {ConvInput(k, t) : k \in ConvTicks, t \in ConvTempos}

\* export's side: ticksToSeconds(ticks, tempo)
ConvertToSeconds ==
    /\ conv.phase = "idle"
    /\ conv' = [conv EXCEPT !.phase = "seconds",
                            !.seconds = ticksToSeconds(conv.ticks, conv.tempo)]
    /\ UNCHANGED <<project, hookVars, codecVars, agentVars, instrVars>>

\* import's side: the seconds converted back at the same tempo
ConvertToTicks ==
    /\ conv.phase = "seconds"
    /\ conv' = [conv EXCEPT !.phase = "ticks",
                            !.back = secondsToTicks(conv.seconds, conv.tempo)]
    /\ UNCHANGED <<project, hookVars, codecVars, agentVars, instrVars>>

NextConv == ConvertToSeconds \/ ConvertToTicks

SpecConv == InitConv /\ [][NextConv]_vars

\* C13: ticks converted to seconds and back at the same tempo come back
\* within 1 tick of where they started.
C13_TicksSecondsInverse ==
    conv.phase = "ticks" => Near(conv.back, conv.ticks)

C13_Witness ==
    /\ conv.phase = "ticks"
    /\ conv.tempo = 137
    /\ conv.ticks = 481
    /\ conv.back = 481

-----------------------------------------------------------------------------
(* Properties of what import stores *)

\* every note import has handed to addMidiClip
StoredNotes ==
    Flatten([i \in 1..Len(calls) |->
                IF calls[i].op = "addMidiClip" THEN calls[i].arg.notes ELSE <<>>])

IsIntegerIn(frac, lo, hi) ==
    /\ frac.n % frac.d = 0
    /\ lo * frac.d <= frac.n
    /\ frac.n <= hi * frac.d

\* C15: every note stored by import has an integer pitch in [0,127] and an
\* integer velocity in [0,127].
C15_StoredNotesInRange ==
    Imported =>
        \A j \in 1..Len(StoredNotes) :
            /\ StoredNotes[j].pitch \in 0..127
            /\ IsIntegerIn(StoredNotes[j].velocity, 0, 127)

-----------------------------------------------------------------------------
(* Agent edits: validateAndNormalizeEdits *)

MAX_NOTES_PER_CLIP == 2000
TICKS_PER_QUARTER == 480

\* JavaScript values as they arrive from JSON: undefined (an absent key),
\* null, numbers (fractions n / d; d = 0 is NaN), strings, booleans, arrays
\* and objects (a function from the keys present to values)
Undef == [t |-> "undefined"]
Null == [t |-> "null"]
Num(n, d) == [t |-> "number", n |-> n, d |-> d]
NaN == Num(0, 0)
Str(x) == [t |-> "string", s |-> x]
Bool(b) == [t |-> "boolean", b |-> b]
Arr(items) == [t |-> "array", items |-> items]
Obj(f) == [t |-> "object", f |-> f]

Nullish(v) == v.t \in {"undefined", "null"}

\* v[k] for a v that is not null or undefined
Get(v, k) == IF v.t = "object" /\ k \in DOMAIN v.f THEN v.f[k] ELSE Undef

\* Number(v); the strings and arrays of the inputs are not numeric
Number(v) ==
    IF v.t = "number" THEN v
    ELSE IF v.t = "null" THEN Num(0, 1)
    ELSE IF v.t = "boolean" THEN Num(IF v.b THEN 1 ELSE 0, 1)
    ELSE IF v.t = "string" /\ v.s = "" THEN Num(0, 1)
    ELSE IF v.t = "array" /\ v.items = <<>> THEN Num(0, 1)
    ELSE NaN

\* x || dflt for a number x
OrDefault(x, dflt) == IF x.d = 0 \/ x.n = 0 THEN dflt ELSE x

Less(a, b) == a.n * b.d < b.n * a.d

MathMax(a, b) == IF Less(a, b) THEN b ELSE a

MathMin(a, b) == IF Less(b, a) THEN b ELSE a

\* Boolean(v)
Truthy(v) ==
    IF v.t = "boolean" THEN v.b
    ELSE IF v.t = "number" THEN v.d # 0 /\ v.n # 0
    ELSE IF v.t = "string" THEN v.s # ""
    ELSE ~Nullish(v)

\* String(v) for the strings, null and undefined of the inputs
String(v) == IF v.t = "string" THEN v.s ELSE v.t

\* v ?? dflt
Coalesce(v, dflt) == IF Nullish(v) THEN dflt ELSE v

ArrayOrEmpty(v) == IF v.t = "array" THEN v.items ELSE <<>>

Take(xs, n) == IF Len(xs) > n THEN SubSeq(xs, 1, n) ELSE xs

EmptyObj == Obj(<<>>)

Thrown(err) == [threw |-> TRUE, error |-> err, out |-> <<>>]

Pushed(edit) == [threw |-> FALSE, error |-> "", out |-> <<edit>>]

Skipped == [threw |-> FALSE, error |-> "", out |-> <<>>]

\* one element of notes.map(...) of an addClip edit
NormalizedNote(n) ==
    LET note == Coalesce(n, EmptyObj)
    IN [pitch |-> MathMin(Num(127, 1), MathMax(Num(0, 1),
                     OrDefault(Number(Get(note, "pitch")), Num(60, 1)))),
        startTick |-> MathMax(Num(0, 1),
                     OrDefault(Number(Get(note, "startTick")), Num(0, 1))),
        durationTick |-> MathMax(Num(1, 1),
                     OrDefault(Number(Get(note, "durationTick")), Num(TICKS_PER_QUARTER, 1))),
        velocity |-> MathMin(Num(127, 1), MathMax(Num(0, 1),
                     OrDefault(Number(Get(note, "velocity")), Num(100, 1)))),
        channel |-> OrDefault(Number(Get(note, "channel")), Num(0, 1))]

\* the steps value of an addPattern edit
PatternSteps(d) ==
    MathMax(Num(16, 1), MathMin(Num(256, 1), OrDefault(Number(Get(d, "steps")), Num(16, 1))))

\* the step array of a channel is shorter than a steps value that is no
\* integer: Array(steps - stepArr.length) throws a RangeError
ChannelThrows(c, steps) ==
    LET stepArr == ArrayOrEmpty(Get(Coalesce(c, EmptyObj), "steps"))
    IN /\ Len(stepArr) * steps.d < steps.n
       /\ steps.n % steps.d # 0

\* one element of channels.map(...) of an addPattern edit
NormalizedChannel(c, idx, steps) ==
    LET ch == Coalesce(c, EmptyObj)
        stepArr == ArrayOrEmpty(Get(ch, "steps"))
        len == Len(stepArr)
        fitted == IF len * steps.d = steps.n THEN stepArr
                  ELSE IF len * steps.d > steps.n
                  THEN SubSeq(stepArr, 1, steps.n \div steps.d)
                  ELSE stepArr \o [i \in 1..(steps.n \div steps.d) - len |-> Bool(FALSE)]
    IN [id |-> IF Nullish(Get(ch, "id")) THEN <<"ch-", idx>> ELSE String(Get(ch, "id")),
        name |-> String(Coalesce(Get(ch, "name"), Str("Channel"))),
        steps |-> [i \in 1..Len(fitted) |-> Truthy(fitted[i])],
        volume |-> Number(Get(ch, "volume")),
        pan |-> Number(Get(ch, "pan")),
        mute |-> Truthy(Get(ch, "mute")),
        solo |-> Truthy(Get(ch, "solo"))]

\* the body of the for loop for one element e of edits
NormalizeEdit(e) ==
    IF ~(e.t = "object" /\ {"type", "description", "data"} \subseteq DOMAIN e.f)
    THEN Skipped
    ELSE LET d == Get(e, "data")
             kind == Get(e, "type")
             description == String(Get(e, "description"))
         IN IF kind \notin {Str("addTrack"), Str("addClip"), Str("addPattern")}
            THEN Skipped
            ELSE IF Nullish(d)
            THEN Thrown("TypeError")
            ELSE IF kind = Str("addTrack")
            THEN Pushed([type |-> "addTrack", description |-> description,
                         data |-> [name |-> String(Coalesce(Get(d, "name"), Str("New Track"))),
                                   color |-> IF Get(d, "color").t = "string"
                                             THEN Get(d, "color") ELSE Undef,
                                   type |-> IF Get(d, "type") \in {Str("drums"), Str("automation")}
                                            THEN Get(d, "type").s ELSE "instrument",
                                   instrument |-> IF Get(d, "instrument").t = "string"
                                                  THEN Get(d, "instrument") ELSE Null]])
            ELSE IF kind = Str("addClip")
            THEN LET notes == Take(ArrayOrEmpty(Get(d, "notes")), MAX_NOTES_PER_CLIP)
                 IN Pushed([type |-> "addClip", description |-> description,
                            data |-> [trackName |-> String(Coalesce(Get(d, "trackName"), Str(""))),
                                      startBar |-> OrDefault(Number(Get(d, "startBar")), Num(0, 1)),
                                      lengthBars |-> MathMax(Num(1, 1),
                                          OrDefault(Number(Get(d, "lengthBars")), Num(4, 1))),
                                      notes |-> [i \in 1..Len(notes) |->
                                                    NormalizedNote(notes[i])]]])
            ELSE LET steps == PatternSteps(d)
                     channels == ArrayOrEmpty(Get(d, "channels"))
                 IN IF \E i \in 1..Len(channels) : ChannelThrows(channels[i], steps)
                    THEN Thrown("RangeError")
                    ELSE Pushed([type |-> "addPattern", description |-> description,
                                 data |-> [name |-> String(Coalesce(Get(d, "name"), Str("Pattern"))),
                                           steps |-> steps,
                                           trackName |-> IF Get(d, "trackName").t = "string"
                                                         THEN Get(d, "trackName") ELSE Undef,
                                           channels |-> [i \in 1..Len(channels) |->
                                               NormalizedChannel(channels[i], i - 1, steps)]]])

\* validateAndNormalizeEdits(edits): the list it returns, or the error it throws
validateAndNormalizeEdits(es) ==
    LET rs == [i \in 1..Len(es) |-> NormalizeEdit(es[i])]
    IN IF \E i \in 1..Len(es) : rs[i].threw
       THEN [phase |-> "done", threw |-> TRUE, result |-> <<>>]
       ELSE [phase |-> "done", threw |-> FALSE,
             result |-> Flatten([i \in 1..Len(es) |-> rs[i].out])]

\* edits as the agent route may hand them over
Edit(kind, data) == Obj([type |-> Str(kind), description |-> Str("d"), data |-> data])

RawNote(p, s, d, v) == Obj([pitch |-> p, startTick |-> s, durationTick |-> d, velocity |-> v])

Steps(n) == Arr([i \in 1..n |-> Bool(i = 1)])

EditSet ==
    { Null,
      Obj([type |-> Str("addTrack"), description |-> Str("d")]),
      Obj([description |-> Str("d"), data |-> Obj([name |-> Str("Bass")])]),
      Edit("removeTrack", Obj([name |-> Str("Bass")])),
      Edit("addTrack", Obj([name |-> Str("Bass"), type |-> Str("drums")])),
      Edit("addTrack", Null),
      Edit("addClip", Obj([trackName |-> Str("Bass"), startBar |-> Num(2, 1),
                           notes |-> Arr(<< RawNote(Num(200, 1), Num(-5, 1), Num(0, 1), Num(-3, 1)),
                                            Null,
                                            RawNote(Num(0, 1), Num(481, 2), Str("x"), Num(127, 1)) >>)])),
      Edit("addClip", Obj([notes |-> Arr([i \in 1..MAX_NOTES_PER_CLIP + 1 |-> Null])])),
      Edit("addPattern", Obj([steps |-> Num(16, 1),
                              channels |-> Arr(<< Obj([steps |-> Steps(3)]),
                                                  Obj([steps |-> Steps(17)]),
                                                  Null >>)])),
      Edit("addPattern", Obj([steps |-> Num(300, 1),
                              channels |-> Arr(<< Obj([steps |-> Str("x")]) >>)])),
      Edit("addPattern", Obj([steps |-> Num(33, 2),
                              channels |-> Arr(<< Obj([steps |-> Steps(17)]) >>)])),
      Edit("addPattern", Obj([steps |-> Num(33, 2),
                              channels |-> Arr(<< Obj([steps |-> Steps(3)]) >>)])) }

InitAgent ==
    /\ HookIdle
    /\ project = NoProject
    /\ CodecIdle
    /\ ConvIdle
    /\ InstrIdle
    /\ edits \in UNION {[1..n -> EditSet] : n \in 0..MaxEdits}
    /\ validated = NotValidated

\* the agent route: const proposedEdits = validateAndNormalizeEdits(expanded)
ValidateEdits ==
    /\ validated.phase = "idle"
    /\ validated' = validateAndNormalizeEdits(edits)
    /\ UNCHANGED <<project, hookVars, codecVars, convVars, instrVars, edits>>

NextAgent == ValidateEdits

SpecAgent == InitAgent /\ [][NextAgent]_vars

InRange(x, lo, hi) == x.d # 0 /\ lo * x.d <= x.n /\ x.n <= hi * x.d

\* C16: validateAndNormalizeEdits raises no error, and what it returns holds
\* only addClip notes with pitch and velocity in [0,127], startTick >= 0 and
\* durationTick >= 1, at most 2000 per clip, and addPattern channels whose
\* steps array is exactly as long as the pattern's steps value.
C16_EditsNormalized ==
    validated.phase = "done" =>
        /\ ~validated.threw
        /\ \A i \in 1..Len(validated.result) :
              LET e == validated.result[i]
              IN /\ e.type = "addClip" =>
                       /\ Len(e.data.notes) <= MAX_NOTES_PER_CLIP
                       /\ \A j \in 1..Len(e.data.notes) :
                             /\ InRange(e.data.notes[j].pitch, 0, 127)
                             /\ InRange(e.data.notes[j].velocity, 0, 127)
                             /\ e.data.notes[j].startTick.d # 0
                             /\ e.data.notes[j].startTick.n >= 0
                             /\ e.data.notes[j].durationTick.d # 0
                             /\ e.data.notes[j].durationTick.n >= e.data.notes[j].durationTick.d
                 /\ e.type = "addPattern" =>
                       \A c \in 1..Len(e.data.channels) :
                           Len(e.data.channels[c].steps) * e.data.steps.d = e.data.steps.n

\* the calls import made after the header calls
BodyCalls == SelectSeq(calls, LAMBDA c : c.op \notin {"setTempo", "setTimeSignature"})

\* the source tracks that hold at least one note, in file order
TracksWithNotes(f) ==
    SelectSeq([k \in 1..Len(f.tracks) |-> k], LAMBDA k : Len(ParsedNotes(f, k)) > 0)

\* every arrangementClip references an existing track and, if of type "midi",
\* an existing midiClip
RefOK(st) ==
    \A i \in 1..Len(st.arrangementClips) :
        LET c == st.arrangementClips[i]
        IN /\ \E j \in 1..Len(st.tracks) : st.tracks[j].id = c.trackId
           /\ c.clipType = "midi" =>
                 \E j \in 1..Len(st.midiClips) : st.midiClips[j].id = c.clipDataId

\* C17: a successful import calls addTrack, addMidiClip, addArrangementClip
\* once each, in that order, for each source track with a note and for no
\* other; the arrangement clip is at startBar 0, of type "midi", and names
\* the track and the clip just added; after every single call the store's
\* arrangementClips all reference an existing track and midiClip.
C17_ImportCallOrder ==
    (Imported /\ importResult.outcome = "ok") =>
        LET w == TracksWithNotes(midiFile)
            b == BodyCalls
        IN /\ Len(b) = 3 * Len(w)
           /\ \A m \in 1..Len(w) :
                 /\ b[3 * m - 2].op = "addTrack"
                 /\ b[3 * m - 1].op = "addMidiClip"
                 /\ b[3 * m].op = "addArrangementClip"
                 /\ b[3 * m - 1].arg.trackId = b[3 * m - 2].arg.id
                 /\ b[3 * m].arg.trackId = b[3 * m - 2].arg.id
                 /\ b[3 * m].arg.clipDataId = b[3 * m - 1].arg.id
                 /\ b[3 * m].arg.startBar = 0
                 /\ b[3 * m].arg.clipType = "midi"
                 /\ \A m2 \in 1..Len(w) : m2 # m => b[3 * m2 - 2].arg.id # b[3 * m - 2].arg.id
           /\ \A n \in 0..Len(calls) :
                 RefOK(ApplyCalls(importResult.before, SubSeq(calls, 1, n)))
           /\ store = ApplyCalls(importResult.before, calls)

C17_Witness ==
    /\ importResult.by = "importMidiFromArrayBuffer"
    /\ importResult.outcome = "ok"
    /\ Len(midiFile.tracks) = 2
    /\ Len(TracksWithNotes(midiFile)) = 1
    /\ Len(store.arrangementClips) = 1
    /\ store.arrangementClips[1].trackId = <<"track", 1>>

\* the tempo and time signature import converts with
ImportTempo(f) == IF f.tempos = <<>> THEN 120 ELSE f.tempos[1]

ImportSignature(f) ==
    IF f.timeSignatures = <<>> THEN [numerator |-> 4, denominator |-> 4]
    ELSE [numerator |-> f.timeSignatures[1][1], denominator |-> f.timeSignatures[1][2]]

\* C18: after a successful import the Project's tempo and time signature
\* are the file's first tempo and time-signature events, or 120 and 4/4 when
\* the file has none: the values import converted the notes with (stated
\* for files that hold a note).
C18_ImportSetsTempoAndSignature ==
    (Imported /\ importResult.outcome = "ok" /\ HasNotes(midiFile)) =>
        /\ store.tempo = ImportTempo(midiFile)
        /\ store.timeSignature = ImportSignature(midiFile)

-----------------------------------------------------------------------------
(* useInstruments: the process-wide synthesizerCache *)

InstrTrack(id, instrument) == [id |-> id, instrument |-> instrument]

\* track lists a component may pass to the hook
TrackLists ==
    { <<>>,
      << InstrTrack("a", "piano") >>,
      << InstrTrack("b", "piano") >>,
      << InstrTrack("a", "piano"), InstrTrack("b", "piano") >>,
      << InstrTrack("a", "null"), InstrTrack("b", "piano") >> }

Ids(ts) == {ts[i].id : i \in 1..Len(ts)}

\* the first index from i on whose track has an instrument and is not cached:
\* where the for loop of loadInstruments reaches createInstrument, 0 if it ends
NextToCreate(ts, i, cache) ==
    LET todo == {j \in i..Len(ts) : ts[j].instrument # "null" /\ cache[ts[j].id] = 0}
    IN IF todo = {} THEN 0 ELSE SetMin(todo)

\* the cleanup of the effect: dispose and delete what is cached for other ids
Kept(cache, ts) == [id \in TrackIds |-> IF id \in Ids(ts) THEN cache[id] ELSE 0]

\* the body of the effect for the track list ts: loadInstruments() runs up to
\* its first await, then the cleanup runs
RunEffect(ts) ==
    LET j == NextToCreate(ts, 1, synthesizerCache)
    IN /\ IF j = 0
          THEN UNCHANGED <<loads, created>>
          ELSE /\ created' = created + 1
               /\ loads' = Append(loads, [tracks |-> ts, at |-> j, synth |-> created + 1])
       /\ synthesizerCache' = Kept(synthesizerCache, ts)
       /\ disposed' = disposed \cup
             {synthesizerCache[id] : id \in {x \in TrackIds \ Ids(ts) : synthesizerCache[x] # 0}}
       /\ instrOp' = [op |-> "effect", ids |-> Ids(ts)]

CanCreate(ts) == NextToCreate(ts, 1, synthesizerCache) = 0 \/ created < MaxSynths

\* a component that uses the hook mounts: its effect runs
MountHook(ts) ==
    /\ mounted < MaxMounted
    /\ CanCreate(ts)
    /\ mounted' = mounted + 1
    /\ RunEffect(ts)
    /\ UNCHANGED <<project, hookVars, codecVars, convVars, agentVars>>

\* a mounted component renders with another tracks array: its effect runs again
TracksChanged(ts) ==
    /\ mounted > 0
    /\ CanCreate(ts)
    /\ RunEffect(ts)
    /\ UNCHANGED <<project, hookVars, codecVars, convVars, agentVars, mounted>>

\* a component unmounts: the effect returns no cleanup function
UnmountHook ==
    /\ mounted > 0
    /\ mounted' = mounted - 1
    /\ instrOp' = [op |-> "unmount", ids |-> {}]
    /\ UNCHANGED <<project, hookVars, codecVars, convVars, agentVars,
                   synthesizerCache, disposed, loads, created>>

RemoveAt(q, l) == SubSeq(q, 1, l - 1) \o SubSeq(q, l + 1, Len(q))

\* the await of a suspended loadInstruments settles: on success
\* cacheRef.current.set(track.id, synth), then the loop goes on to the next
\* track to create, or ends
ResumeLoad(l, ok) ==
    /\ l \in 1..Len(loads)
    /\ LET ld == loads[l]
           cache == IF ok THEN [synthesizerCache EXCEPT ![ld.tracks[ld.at].id] = ld.synth]
                    ELSE synthesizerCache
           j == NextToCreate(ld.tracks, ld.at + 1, cache)
       IN /\ j = 0 \/ created < MaxSynths
          /\ synthesizerCache' = cache
          /\ IF j = 0
             THEN loads' = RemoveAt(loads, l) /\ created' = created
             ELSE /\ created' = created + 1
                  /\ loads' = [loads EXCEPT ![l] = [ld EXCEPT !.at = j, !.synth = created + 1]]
    /\ instrOp' = [op |-> "resume", ids |-> {}]
    /\ UNCHANGED <<project, hookVars, codecVars, convVars, agentVars, disposed, mounted>>

InitInstr ==
    /\ HookIdle
    /\ project = NoProject
    /\ CodecIdle
    /\ ConvIdle
    /\ AgentIdle
    /\ InstrIdle

NextInstr ==
    \/ \E ts \in TrackLists : MountHook(ts)
    \/ \E ts \in TrackLists : TracksChanged(ts)
    \/ UnmountHook
    \/ \E l \in 1..MaxSynths, ok \in BOOLEAN : ResumeLoad(l, ok)

SpecInstr == InitInstr /\ [][NextInstr]_vars

\* C19: an instance held in the cache under a track id stays there, undisposed,
\* across every step except a run of the effect with a track list that does
\* not contain that id.
C19_CacheKeptWhileTrackPresent ==
    [][\A id \in TrackIds :
          synthesizerCache[id] # 0 =>
              \/ /\ synthesizerCache'[id] = synthesizerCache[id]
                 /\ synthesizerCache[id] \notin disposed'
              \/ /\ instrOp'.op = "effect"
                 /\ id \notin instrOp'.ids]_vars

-----------------------------------------------------------------------------
(* Properties of the exported file *)

\* the indices of the project tracks that have an arrangement clip, ascending
WithClips(p) ==
    SortSet({i \in 1..Len(p.tracks) :
                \E k \in 1..Len(p.arrangementClips) :
                    p.arrangementClips[k].trackId = p.tracks[i].id})

CountPlaced(ns, x) ==
    Cardinality({j \in 1..Len(ns) :
        ns[j].pitch = x[1] /\ ns[j].abs = x[2] /\ ns[j].durationTick = x[3]})

CountWritten(ns, x) ==
    Cardinality({j \in 1..Len(ns) :
        ns[j].midi = x[1] /\ ns[j].ticks = x[2] /\ ns[j].durationTicks = x[3]})

-----------------------------------------------------------------------------
(* The walk over the groups of one track *)

\* the groups a pass registered for a track: <<rounded logical position,
\* start position of the group's events>>
GroupsOf(tid) ==
    {<<scheduledEvents[i].logical, scheduledEvents[i].start>> :
        i \in {k \in 1..Len(scheduledEvents) : scheduledEvents[k].track = tid}}

PassTracks == {scheduledEvents[i].track : i \in 1..Len(scheduledEvents)}

\* g and h are successive groups of the track in ascending logical position
Successive(tid, g, h) ==
    /\ g[1] < h[1]
    /\ ~\E k \in GroupsOf(tid) : g[1] < k[1] /\ k[1] < h[1]

\* minStartBars as the last pass computed it
PassMinStart == Max(0, passInfo.pos + safetyMargin)

\* C21: within one track's pass each group has one adjusted start, the
\* adjusted start of a group is max(start, minStartBars, previous adjusted
\* start + 0.00001), so it is at least 0.00001 above the previous group's, and
\* the groups' adjusted starts are ordered as their logical positions are.
C21_AdjustedStartFormula ==
    AfterPass =>
        \A tid \in PassTracks : \A g, h \in GroupsOf(tid) :
            /\ g[1] = h[1] => g[2] = h[2]
            /\ Successive(tid, g, h) =>
                  /\ h[2] = Max(Max(h[1], PassMinStart), g[2] + epsilon)
                  /\ h[2] >= g[2] + epsilon
            /\ g[1] < h[1] => g[2] < h[2]

C21_Witness ==
    /\ AfterPass
    /\ \E tid \in PassTracks : \E g, h \in GroupsOf(tid) :
          /\ Successive(tid, g, h)
          /\ h[2] = g[2] + epsilon
          /\ h[2] > h[1]
          /\ h[2] > PassMinStart

\* C29: no group is registered earlier than its rounded logical position, and
\* a group whose logical position is at or after minStartBars and more than
\* 0.00001 above the previous group's adjusted start is registered exactly at
\* its logical position.
C29_NeverBeforeLogical ==
    AfterPass =>
        \A tid \in PassTracks : \A h \in GroupsOf(tid) :
            /\ h[2] >= h[1]
            /\ ( /\ h[1] >= PassMinStart
                 /\ \A g \in GroupsOf(tid) :
                       Successive(tid, g, h) => h[1] > g[2] + epsilon )
                  => h[2] = h[1]

C29_Witness ==
    /\ AfterPass
    /\ passInfo.pos > 0
    /\ \E tid \in PassTracks : \E g, h \in GroupsOf(tid) :
          /\ Successive(tid, g, h)
          /\ g[2] > g[1]
          /\ h[1] >= PassMinStart
          /\ h[1] > g[2] + epsilon
          /\ h[2] = h[1]

-----------------------------------------------------------------------------
(* Chords and individual notes *)

\* the notes of track tid whose rounded start position is k
GroupNotes(tid, k) ==
    LET an == allNotes(project, tid)
    IN {an[x] : x \in {y \in 1..Len(an) :
                          roundedStartBars(an[y], tempo, project.timeSignature) = k}}

\* the indices of the events registered for track tid at logical position k
GroupEventIndices(tid, k) ==
    {i \in 1..Len(scheduledEvents) :
        scheduledEvents[i].track = tid /\ scheduledEvents[i].logical = k}

Uniform(G) ==
    \A a, b \in G : /\ a.note.velocity = b.note.velocity
                    /\ a.note.durationTick = b.note.durationTick

\* C22: a group of more than one note, all of one velocity and one
\* durationTick, on a Tone.PolySynth gives exactly one chord event carrying all
\* its notes; every other group gives exactly one event per note.
C22_ChordOrIndividual ==
    AfterPass =>
        \A tid \in ScheduledTracks(project) :
            \A k \in {g[1] : g \in GroupsOf(tid)} :
                LET G == GroupNotes(tid, k)
                    E == GroupEventIndices(tid, k)
                IN IF /\ getSynthesizer(project, tid) = "PolySynth"
                      /\ Cardinality(G) > 1
                      /\ Uniform(G)
                   THEN /\ Cardinality(E) = 1
                        /\ \A i \in E : /\ scheduledEvents[i].chord
                                        /\ Range(scheduledEvents[i].keys)
                                              = {e.key : e \in G}
                   ELSE /\ Cardinality(E) = Cardinality(G)
                        /\ \A i \in E : /\ ~scheduledEvents[i].chord
                                        /\ Len(scheduledEvents[i].keys) = 1
                        /\ \A e \in G : \E i \in E : scheduledEvents[i].keys = <<e.key>>

C22_Witness ==
    /\ AfterPass
    /\ \E tid \in ScheduledTracks(project) : \E k \in {g[1] : g \in GroupsOf(tid)} :
          /\ getSynthesizer(project, tid) = "PolySynth"
          /\ Cardinality(GroupNotes(tid, k)) = 2
          /\ \A e \in GroupNotes(tid, k) :
                e.note.velocity = 90 /\ e.note.durationTick = 480
          /\ Cardinality(GroupEventIndices(tid, k)) = 1

-----------------------------------------------------------------------------
(* Tracks and clips a pass leaves out *)

\* arrangement clip i is a MIDI clip whose MidiClip and Track exist, the Track
\* not muted, with an instrument and with an instance in the instrument cache
Playable(i) ==
    LET a == project.arrangementClips[i]
    IN /\ a.clipType = "midi"
       /\ \E c \in 1..Len(project.midiClips) : project.midiClips[c].id = a.clipDataId
       /\ \E t \in 1..Len(project.tracks) :
             /\ project.tracks[t].id = a.trackId
             /\ ~project.tracks[t].mute
             /\ project.tracks[t].instrument # "null"
             /\ project.tracks[t].synth # "none"

NotesOfClip(i) ==
    LET a == project.arrangementClips[i]
        c == CHOOSE c \in 1..Len(project.midiClips) :
                 project.midiClips[c].id = a.clipDataId
    IN 1..Len(project.midiClips[c].notes)

PlayableKeys ==
    UNION {{<<project.arrangementClips[i].trackId, i, j>> : j \in NotesOfClip(i)} :
              i \in {k \in 1..Len(project.arrangementClips) : Playable(k)}}

RegisteredKeys ==
    UNION {Range(scheduledEvents[i].keys) : i \in 1..Len(scheduledEvents)}

\* a track with notes on the timeline that the pass has to leave out
LeftOut(t) ==
    /\ \/ project.tracks[t].mute
       \/ project.tracks[t].instrument = "null"
       \/ project.tracks[t].synth = "none"
    /\ \E i \in 1..Len(project.arrangementClips) :
          /\ project.arrangementClips[i].trackId = project.tracks[t].id
          /\ project.arrangementClips[i].clipType = "midi"
          /\ \E c \in 1..Len(project.midiClips) :
                /\ project.midiClips[c].id = project.arrangementClips[i].clipDataId
                /\ project.midiClips[c].notes # <<>>

\* C23: a pass registers events for exactly the notes reached through a MIDI
\* arrangement clip whose MidiClip resolves and whose track exists, is not
\* muted, has an instrument and an instance in the instrument cache: a track
\* failing one of these gets no event and takes none away from another track.
C23_OnlyPlayableTracks ==
    (AfterPass /\ project # NoProject) =>
        /\ RegisteredKeys = PlayableKeys
        /\ \A i \in 1..Len(scheduledEvents) :
              \A m \in 1..Len(scheduledEvents[i].keys) :
                  scheduledEvents[i].keys[m][1] = scheduledEvents[i].track

C23_Witness ==
    /\ AfterPass
    /\ project # NoProject
    /\ \E t \in 1..Len(project.tracks) :
          /\ LeftOut(t)
          /\ \A i \in 1..Len(scheduledEvents) :
                scheduledEvents[i].track # project.tracks[t].id
    /\ scheduledEvents # <<>>

-----------------------------------------------------------------------------
(* The deferred frame callback of the schedule effect *)

\* a pending callback is the one of the latest run of the effect: it was
\* requested while playing, for the current project and tempo
PendingIsCurrent ==
    scheduleId.pending =>
        /\ isPlaying
        /\ instrumentsReady
        /\ project # NoProject
        /\ scheduleId.project = project
        /\ scheduleId.tempo = tempo

\* a pass run by the frame callback ran while playing
FramePassWhilePlaying == lastOp = "frame" => isPlaying

\* C24 as stated: a frame callback requested before a stop, a tempo change or
\* a Project change never runs a pass, no pass started by the effect runs
\* while isPlaying is false, and while the callback is pending no handle is
\* registered.
C24_NothingRegisteredWhilePending ==
    /\ PendingIsCurrent
    /\ FramePassWhilePlaying
    /\ scheduleId.pending => registered = {}

\* C24 amended: a frame callback requested before a stop, a tempo change or a
\* Project change never runs a pass, no pass started by the effect runs while
\* isPlaying is false, every run of the effect leaves no registered handle,
\* and while the callback is pending only a direct scheduleNotes call
\* registers one.
C24_CancelledFrameNeverRuns ==
    /\ [](PendingIsCurrent /\ FramePassWhilePlaying)
    /\ [][ /\ lastOp' \in {"play", "stop", "tempo", "project", "ready"}
              => registered' = {}
           /\ (scheduleId.pending /\ registered = {} /\ registered' # {})
              => lastOp' \in {"direct", "frame"} ]_vars

\* playback was stopped while the callback requested by Play was pending
C24_Witness ==
    /\ lastOp = "stop"
    /\ passCount = 0
    /\ project # NoProject
    /\ instrumentsReady
    /\ ~scheduleId.pending
    /\ ~isPlaying

-----------------------------------------------------------------------------
(* Progress of the schedule effect: the frame callback under fair scheduling *)

\* the Transport has not applied the effect's bpm write when the frame
\* callback reads bpm.value: it still shows another value b
BpmNotApplied(b) ==
    /\ scheduleId.pending
    /\ bpm = scheduleId.tempo
    /\ b # bpm
    /\ bpm' = b
    /\ lastOp' = "transport"
    /\ UNCHANGED <<codecVars, auxVars, playheadVars>>
    /\ UNCHANGED <<project, isPlaying, tempo, instrumentsReady, seconds,
                   scheduledEvents, registered, scheduleId, passCount, fireCount,
                   passInfo>>

NextLive ==
    \/ Play
    \/ Stop
    \/ \E t \in HookTempos : SetTempo(t)
    \/ FrameCallback
    \/ \E s \in SecondsSet : TransportAdvance(s)
    \/ \E b \in HookTempos : BpmNotApplied(b)

\* the step in which the pending frame callback runs: among the steps of
\* NextLive these are exactly the steps of FrameCallback
FrameFires ==
    /\ scheduleId.pending
    /\ passCount < MaxPasses
    /\ scheduleId' = NoFrame
    /\ lastOp' = "frame"

\* the browser runs a requested animation-frame callback in its next frame
SpecLive == Init /\ [][NextLive]_vars /\ WF_<<scheduleId, lastOp>>(FrameFires)

\* C25: once isPlaying has become true with a Project and instruments ready,
\* a scheduling pass eventually runs unless a stop or a tempo change comes
\* first, and when it runs the Transport's bpm is the requested tempo, also
\* when the Transport showed another bpm at the time of the frame callback.
C25_PassEventuallyRuns ==
    (lastOp = "play" /\ scheduleId.pending /\ passCount < MaxPasses)
        ~> \/ lastOp = "frame" /\ isPlaying /\ bpm = tempo /\ passInfo.n = Len(scheduledEvents)
           \/ lastOp \in {"stop", "tempo"}

\* the pass ran although the Transport showed a stale bpm during the frame wait
C25_Witness ==
    /\ lastOp = "frame"
    /\ isPlaying
    /\ bpm = tempo
    /\ bpm # 120
    /\ passCount = 1
    /\ scheduledEvents # <<>>

-----------------------------------------------------------------------------
(* The playhead reporter *)

\* update(): the playhead's animation-frame callback with id f runs, reports
\* the Transport position in bars and requests the next frame
PlayheadFrame(f) ==
    /\ f \in playheadFrames
    /\ playheadPosition' = (seconds * bpm) \div 240
    /\ LET rest == playheadFrames \ {f}
       IN /\ playheadFrames' = rest \cup {FreshFrame(rest)}
          /\ playheadUpdateRef' = FreshFrame(rest)
    /\ lastOp' = "playhead"
    /\ UNCHANGED <<codecVars, auxVars, hookMounted>>
    /\ UNCHANGED <<project, isPlaying, tempo, instrumentsReady, bpm, seconds,
                   scheduledEvents, registered, scheduleId, passCount, fireCount,
                   passInfo>>

\* the component unmounts: the cleanups of both effects run
Unmount ==
    /\ hookMounted
    /\ hookMounted' = FALSE
    /\ playheadFrames' = CancelFrame(playheadFrames, playheadUpdateRef)
    /\ playheadUpdateRef' = 0
    /\ scheduleId' = NoFrame
    /\ registered' = DisposeAll(registered, scheduledEvents)
    /\ scheduledEvents' = <<>>
    /\ passInfo' = [passInfo EXCEPT
                       !.disposed = Cardinality(registered \cap Range(scheduledEvents))]
    /\ lastOp' = "unmount"
    /\ UNCHANGED <<codecVars, auxVars, playheadPosition>>
    /\ UNCHANGED <<project, isPlaying, tempo, instrumentsReady, bpm, seconds,
                   passCount, fireCount>>

\* props change only while the component is mounted; the browser runs
\* whatever frame is pending
NextPlayhead ==
    \/ hookMounted /\ Play
    \/ hookMounted /\ Stop
    \/ hookMounted /\ \E t \in HookTempos : SetTempo(t)
    \/ FrameCallback
    \/ \E f \in playheadFrames : PlayheadFrame(f)
    \/ \E s \in SecondsSet : isPlaying /\ hookMounted /\ TransportAdvance(s)
    \/ Unmount

SpecPlayhead == Init /\ [][NextPlayhead]_vars

\* C26: the playhead's frame callback is pending only while playing and
\* mounted, so after a stop or an unmount setPlayheadPosition is not called
\* until playback restarts; and at most one playhead frame is pending, the one
\* playheadUpdateRef holds.
C26_PlayheadStopsWithPlayback ==
    /\ Cardinality(playheadFrames) <= 1
    /\ playheadFrames # {} => (isPlaying /\ hookMounted)
    /\ playheadFrames \subseteq {playheadUpdateRef}
    /\ lastOp = "playhead" => (isPlaying /\ hookMounted)

\* the playhead was sampled while playing, then playback stopped
C26_Witness ==
    /\ lastOp = "stop"
    /\ playheadPosition > 0
    /\ playheadFrames = {}
    /\ playheadUpdateRef = 0

-----------------------------------------------------------------------------
(* Normalisation and length of an imported clip *)

\* the time signature import recovers: the file's first, or 4/4
RecoveredTicksPerBar ==
    IF midiFile.timeSignatures = <<>> THEN 1920
    ELSE (midiFile.timeSignatures[1][1] * 480 * 4) \div midiFile.timeSignatures[1][2]

\* the start ticks import computes for source track k, before normalisation
SourceStartTicks(k) ==
    LET src == ParsedNotes(midiFile, k)
        t == IF midiFile.tempos = <<>> THEN 120 ELSE midiFile.tempos[1]
    IN [j \in 1..Len(src) |-> secondsToTicks(src[j].time, t)]

\* n = ceil(span / tpb)
IsCeil(n, span, tpb) == n * tpb >= span /\ (n - 1) * tpb < span

\* C27: every imported clip has a note at startTick 0 and none before it, the
\* notes keep their distances, and the MidiClip and its ArrangementClip both
\* have lengthBars = max(1, ceil((latest end - earliest start) / ticksPerBar))
\* for the ticksPerBar of the recovered time signature.
C27_ClipNormalizedAndSized ==
    (importResult.by = "importMidiFromArrayBuffer" /\ importResult.outcome = "ok") =>
        LET w == TracksWithNotes(midiFile)
            b == BodyCalls
        IN \A m \in 1..Len(w) :
              LET clip == b[3 * m - 1].arg
                  arr == b[3 * m].arg
                  orig == SourceStartTicks(w[m])
                  span == -SetMin({-(clip.notes[j].startTick + clip.notes[j].durationTick) :
                                     j \in 1..Len(clip.notes)})
              IN /\ Len(clip.notes) = Len(orig)
                 /\ \E j \in 1..Len(clip.notes) : clip.notes[j].startTick = 0
                 /\ \A j \in 1..Len(clip.notes) : clip.notes[j].startTick >= 0
                 /\ \A i, j \in 1..Len(clip.notes) :
                       clip.notes[i].startTick - clip.notes[j].startTick
                           = orig[i] - orig[j]
                 /\ clip.lengthBars >= 1
                 /\ clip.lengthBars > 1 => IsCeil(clip.lengthBars, span, RecoveredTicksPerBar)
                 /\ clip.lengthBars = 1 => span <= RecoveredTicksPerBar
                 /\ arr.lengthBars = clip.lengthBars

\* a clip whose first note was moved to tick 0 and that is longer than a bar,
\* in 3/4
C27_Witness ==
    /\ importResult.by = "importMidiFromArrayBuffer"
    /\ importResult.outcome = "ok"
    /\ midiFile.timeSignatures # <<>>
    /\ \E m \in 1..Len(TracksWithNotes(midiFile)) :
          /\ SetMin(Range(SourceStartTicks(TracksWithNotes(midiFile)[m]))) > 0
          /\ BodyCalls[3 * m - 1].arg.lengthBars >= 2
          /\ BodyCalls[3 * m - 1].arg.lengthBars * RecoveredTicksPerBar
                > BodyCalls[3 * m - 1].arg.notes[1].startTick
                    + BodyCalls[3 * m - 1].arg.notes[1].durationTick

-----------------------------------------------------------------------------
(* Instrument inference on import *)

\* the track name holds the keyword, whatever the case of its letters
NameHas(name, keyword) ==
    \E i \in 0..(Len(NameChars(name)) - Len(keyword)) :
        \A j \in 1..Len(keyword) :
            \/ NameChars(name)[i + j] = keyword[j]
            \/ \E u \in 1..Len(UpperCase) :
                  UpperCase[u] = NameChars(name)[i + j] /\ LowerCase[u] = keyword[j]

\* C28: every imported track whose source track is on channel 9 or has
\* 'drum' or 'perc' in its lower-cased name gets a drums/percussion
\* instrument, whatever else its name, program and pitches say; every
\* imported track gets a valid instrument id; and a file that parses and has
\* notes is imported whatever inference returns.
C28_DrumsByChannelOrName ==
    (importResult.by = "importMidiFromArrayBuffer" /\ codecPhase # "idle") =>
        /\ (midiFile.parses /\ isMidiArrayBuffer(midiFile.bytes) /\ HasNotes(midiFile))
              => importResult.outcome = "ok"
        /\ importResult.outcome = "ok" =>
              LET w == TracksWithNotes(midiFile)
              IN \A m \in 1..Len(w) :
                    LET src == midiFile.tracks[w[m]]
                        added == BodyCalls[3 * m - 2].arg
                    IN /\ \E id \in InstrumentId : added.instrument = <<id>>
                       /\ ( \/ src.channel = 9
                            \/ NameHas(src.name, <<"d", "r", "u", "m">>)
                            \/ NameHas(src.name, <<"p", "e", "r", "c">>) )
                          => /\ added.instrument \in {<<"drums">>, <<"percussion">>}
                             /\ added.type = "drums"

\* a track named after bass and drum with a bass program, and a track named
\* Piano on channel 9, both imported as drums
C28_Witness ==
    /\ importResult.by = "importMidiFromArrayBuffer"
    /\ importResult.outcome = "ok"
    /\ Len(midiFile.tracks) = 2
    /\ midiFile.tracks[1].name = "Bass Drum"
    /\ midiFile.tracks[1].program = 33
    /\ midiFile.tracks[2].channel = 9
    /\ Len(store.tracks) = 2
    /\ store.tracks[1].instrument = <<"drums">>
    /\ store.tracks[2].instrument = <<"drums">>

-----------------------------------------------------------------------------
(* Instances created by concurrent loads *)

\* C30: the instance cached for a track id is never replaced by another
\* instance, so a track id gets one instance while the track exists, and an
\* instance leaves the cache only when it is disposed: no load overwrites and
\* orphans the instance of another load for the same id.
C30_OneInstancePerTrack ==
    [][\A id \in TrackIds :
          (synthesizerCache[id] # 0 /\ synthesizerCache'[id] # synthesizerCache[id])
             => /\ synthesizerCache'[id] = 0
                /\ synthesizerCache[id] \in disposed']_vars

====
